---- MODULE Spec2Model ----
(***************************************************************************)
(* Stremax execution engines.                                              *)
(*                                                                         *)
(*   runtime VM   src/src/runtime/vm.rs, src/src/runtime/instructions.rs   *)
(*                the instruction loop VM::execute, nested call_contract,  *)
(*                the resource methods, the actor mailboxes                *)
(*   bytecode VM  src/src/vm/main.rs, the opcode loop with the reentrancy  *)
(*                guard                                                    *)
(*                                                                         *)
(* Each machine has its own specification over the shared variable list;   *)
(* the variables of the machine a specification does not run stay put.     *)
(***************************************************************************)
EXTENDS Integers, Sequences, FiniteSets, TLC

VARIABLES
    \* ---- runtime VM (src/src/runtime/vm.rs:8-29) ----
    stack,            \* VM.stack
    context,          \* VM.context: ExecutionContext
    program,          \* VM.program
    pc,               \* VM.pc
    resources,        \* VM.resources: ResourceId -> ResourceState.owner
    permissions,      \* VM.permissions, as the set of (granted_to, resource) grants
    storage,          \* VM.storage
    events,           \* VM.events
    actors,           \* VM.actors: ActorId -> mailbox
    callStack,        \* the native stack of call_contract invocations in progress
    status,           \* where the run is: running, unwinding an error, ok, err, api
    error,            \* the Error being returned, "none" when there is none
    \* ---- history of the runtime VM, read only by the properties ----
    lastExec,         \* the instruction the loop dispatched last
    lastCall,         \* the call_contract invocation that returned in the last step
    startEffects,     \* storage, events, resources and mailboxes when execute began
    lastOp,           \* the resource method called last, by whom, and its result
    rootCharged,      \* the gas the loop has charged for instructions of the root program
    allCharged,       \* the sum of gas_cost over every instruction execute has dispatched
    \* ---- bytecode VM (src/src/vm/main.rs:9-33) ----
    bc_stack,         \* VM.stack
    call_stack,       \* VM.call_stack: CallFrame
    gas_left,         \* VM.gas_left
    reentrancy_guard, \* VM.reentrancy_guard: TRUE while the mutex is locked
    bc_storage,       \* VM.storage: slot -> bytes
    current_contract, \* VM.current_contract
    bc_calls,         \* call_function invocations made so far
    bc_status,        \* idle, running, panicked
    bc_result,        \* the result of the last call_function: none, ok or the error
    \* ---- history of the bytecode VM ----
    openStarts,       \* NOREENTRY_START executed whose NOREENTRY_END has not run yet
    exits,            \* how the guarded regions of this VM were left so far
    lastInstr,        \* opcode executed in the last step and whether it succeeded
    slotWriter,       \* storage slot -> the contract whose SSTORE wrote it last
    guardUsers,       \* the contracts whose instructions have locked reentrancy_guard
    \* ---- history of the actor system of the runtime VM ----
    sent,             \* send_message calls made so far
    handled,          \* the handle_message invocations so far, in order
    lastSend,         \* the send_message call made in the last step and its result
    lastPass,         \* the process_messages pass made in the last step
    \* ---- GasMeter (src/src/stdlib/core/gas.rs:4-8) ----
    meter,            \* the GasMeter: remaining, limit, used
    lastConsume,      \* history: the consume call of the last step and its result
    \* ---- MemoryManager (src/src/core/memory.rs:116-118) ----
    pages,            \* MemoryManager.pages: Vec<Option<Page>>
    lastMem,          \* history: the MemoryManager method of the last step
    \* ---- Region (src/src/core/memory.rs:6-11) ----
    region,           \* the Region: capacity, size and whether a call panicked
    blocks,           \* history: the blocks allocate returned that are still live
    lastRegion,       \* history: the Region method of the last step
    \* ---- EventLog (src/src/stdlib/core/events.rs:48-50) ----
    eventLog,         \* EventLog.events
    emitted,          \* history: the events emitted so far
    \* ---- Token (src/src/examples/simple_token.rs:7-13) ----
    token,            \* the Token's own fields
    balances,         \* what storage holds under the Map prefix token_balances
    lastTransfer,     \* history: the transfer call of the last step and its result
    \* ---- ConcurrentModuleLoader (src/src/core/module/concurrent.rs:12-18) ----
    modules,          \* ConcurrentModuleLoader.modules: ModuleId -> Arc<RwLock<Module>>
    instances,        \* the Module values allocated so far, by the number of their Arc
    tasks,            \* the load_module futures: where each one stands and its result
    lastUnload        \* history: the unload_module call of the last step and its result

rtVars == <<stack, context, program, pc, resources, permissions, storage, events,
            actors, callStack, status, error, lastExec, lastCall, startEffects, lastOp,
            rootCharged, allCharged>>
bcVars == <<bc_stack, call_stack, gas_left, reentrancy_guard, bc_storage,
            current_contract, bc_calls, bc_status, bc_result,
            openStarts, exits, lastInstr, slotWriter, guardUsers>>
msgVars == <<sent, handled, lastSend, lastPass>>
gasVars == <<meter, lastConsume>>
memVars == <<pages, lastMem>>
regVars == <<region, blocks, lastRegion>>
evVars == <<eventLog, emitted>>
tokVars == <<token, balances, lastTransfer>>
ldVars == <<modules, instances, tasks, lastUnload>>
libVars == <<gasVars, memVars, regVars, evVars, tokVars, ldVars>>
vars == <<rtVars, bcVars, msgVars, libVars>>

None == "none"

(***************************************************************************)
(* Bounds of the model.                                                    *)
(***************************************************************************)
MaxActor == 1
MaxResource == 1
MaxGas == 6
MaxCalls == 2
DeepGas == 102600

ActorIds == 0..MaxActor
\* the ids held by VM.resources; MaxResource + 1 is an id the map does not hold
ResourceIds == 0..MaxResource
UnknownId == MaxResource + 1

(***************************************************************************)
(* Instruction::gas_cost, src/src/runtime/instructions.rs:106-121.         *)
(***************************************************************************)
gas_cost(instr) ==
    CASE instr.op = "Push" -> 1
      [] instr.op = "Pop" -> 1
      [] instr.op = "Add" -> 1
      [] instr.op = "Sub" -> 1
      [] instr.op = "Mul" -> 5
      [] instr.op = "Div" -> 5
      [] instr.op = "CallContract" -> 100
      [] instr.op = "CreateContract" -> 1000
      [] instr.op = "EmitEvent" -> 100
      [] instr.op = "Store" -> 20
      [] instr.op = "Load" -> 20
      [] OTHER -> 1

\* An instruction: its kind, its operand and, for Push, the tag of the Value pushed.
I(op, arg) == [op |-> op, arg |-> arg, tag |-> "Int"]
PushBool(b) == [op |-> "Push", arg |-> b, tag |-> "Bool"]

\* src/src/core/mod.rs:50
MAX_CALL_DEPTH == 1024

(***************************************************************************)
(* Values, Option and the execution context.                               *)
(* Option<T> is the empty set (None) or a singleton (Some(x)).             *)
(***************************************************************************)
Some(x) == {x}
\* Value::Int(n), Value::Bool(b) with b as 0 or 1
IntV(n) == [tag |-> "Int", v |-> n]

\* ExecutionContext::new(gas_limit), used at vm.rs:71 and vm.rs:158. The file
\* runtime/context.rs is not part of the sources; the constructor takes the gas
\* limit alone, so every other field starts from a fixed default.
DefaultActor == 0
ExecutionContextNew(gas_limit) ==
    [gas_limit |-> gas_limit, gas_used |-> 0,
     current_actor |-> DefaultActor, caller |-> {}]

(***************************************************************************)
(* The programs the model runs. Contracts is what load_contract finds at   *)
(* an address; address UndeployedAddr holds no contract.                   *)
(***************************************************************************)
Contracts ==
    <<  \* address 1: calls itself
        << I("CallContract", 1) >>,
        \* address 2: pushes and acquires resource 0
        << I("Push", 1), I("AcquireResource", 0) >>,
        \* address 3: acquires resource 0, then pops from whatever the stack holds
        << I("AcquireResource", 0), I("Pop", 0), I("Pop", 0) >> >>
Addresses == DOMAIN Contracts
UndeployedAddr == Len(Contracts) + 1

Programs ==
    { << I("Push", 1), I("Push", 2), I("Add", 0) >>,
      << I("Push", 1), I("Pop", 0), I("Pop", 0) >>,
      << I("Push", 1), I("Add", 0), I("Push", 2) >>,
      << I("Push", 1), PushBool(1), I("Add", 0) >>,
      << I("Mul", 0), I("Push", 1) >>,
      << I("Store", 0), I("AcquireResource", 0), I("ReleaseResource", 0) >>,
      << I("AcquireResource", 0), I("Pop", 0) >>,
      << I("AcquireResource", 1), I("AcquireResource", UnknownId) >>,
      << I("CallContract", 1) >>,
      << I("CallContract", 2), I("Push", 2) >>,
      << I("CallContract", 3), I("Push", 2) >>,
      << I("Push", 1), I("CallContract", 3), I("Pop", 0) >>,
      << I("AcquireResource", 0), I("CallContract", 2) >>,
      << I("CallContract", UndeployedAddr) >>,
      << I("EmitEvent", 0), I("CallContract", 2) >> }

\* gas limits around each multiple of the cost of a contract call
GasLimits ==
    { n * gas_cost(I("CallContract", 0)) + k : n \in 0..MaxCalls, k \in 0..MaxGas }

\* the grants VM.permissions may hold: every actor may call every address, or
\* every actor but the default one
PermissionChoices ==
    { [granted_to : ActorIds, resource : Addresses \cup {UndeployedAddr}],
      [granted_to : ActorIds \ {DefaultActor}, resource : Addresses \cup {UndeployedAddr}] }

\* owners VM.resources may hold when a run starts: all free, or resource 0 owned
ResourceChoices ==
    { [r \in ResourceIds |-> {}] }
    \cup { [r \in ResourceIds |-> IF r = 0 THEN Some(a) ELSE {}] : a \in ActorIds }

\* storage, events, resources and mailboxes: what a transaction's effects are
Effects ==
    [resources |-> resources, storage |-> storage, events |-> events, actors |-> actors]

(***************************************************************************)
(* Resource methods, src/src/runtime/vm.rs:120-142. Each returns the error *)
(* (None for Ok) and the resources map afterwards.                         *)
(***************************************************************************)
\* acquire_resource without the test of vm.rs:124-126
acquire_resource_unchecked(res, actor, id) ==
    IF id \notin DOMAIN res
    THEN [err |-> "ResourceNotFound", resources |-> res]
    ELSE [err |-> None, resources |-> [res EXCEPT ![id] = Some(actor)]]

acquire_resource(res, actor, id) ==
    IF id \notin DOMAIN res
    THEN [err |-> "ResourceNotFound", resources |-> res]
    ELSE IF res[id] # {}
    THEN [err |-> "ResourceUnavailable", resources |-> res]
    ELSE [err |-> None, resources |-> [res EXCEPT ![id] = Some(actor)]]

\* release_resource without the test of vm.rs:136-138
release_resource_unchecked(res, actor, id) ==
    IF id \notin DOMAIN res
    THEN [err |-> "ResourceNotFound", resources |-> res]
    ELSE [err |-> None, resources |-> [res EXCEPT ![id] = {}]]

release_resource(res, actor, id) ==
    IF id \notin DOMAIN res
    THEN [err |-> "ResourceNotFound", resources |-> res]
    ELSE IF res[id] # Some(actor)
    THEN [err |-> "PermissionDenied", resources |-> res]
    ELSE [err |-> None, resources |-> [res EXCEPT ![id] = {}]]

\* VM::is_resource_available, called at instructions.rs:93; its body is not part
\* of the sources. Spec 4.7: an unknown id is reported by acquire_resource as
\* ResourceNotFound, an owned one as ResourceUnavailable.
is_resource_available(res, id) ==
    id \in DOMAIN res => res[id] = {}

\* Instruction::AcquireResource, instructions.rs:91-99
InstrAcquireResource(res, actor, id) ==
    IF ~is_resource_available(res, id)
    THEN [err |-> "ResourceUnavailable", resources |-> res]
    ELSE acquire_resource(res, actor, id)

\* VM::has_permission, called at instructions.rs:83; its body is not part of the
\* sources. Spec 4.3 (2): the caller holds a permission to invoke the address.
has_permission(perms, actor, addr) ==
    \E p \in perms : p.granted_to = actor /\ p.resource = addr

\* VM::load_contract, called at vm.rs:162; its body is not part of the sources.
\* Spec 7: an address that holds no contract is ContractNotFound.
load_contract(addr) ==
    IF addr \in Addresses
    THEN [err |-> None, program |-> Contracts[addr]]
    ELSE [err |-> "ContractNotFound", program |-> <<>>]

(***************************************************************************)
(* VM::execute, src/src/runtime/vm.rs:83-98: one action per way an         *)
(* iteration of the loop can go.                                           *)
(***************************************************************************)
Fetch == program[pc + 1]
CanFetch == status = "running" /\ pc < Len(program)
HasGas == context.gas_used < context.gas_limit

\* vm.rs:92. gas_used is a u64; the limits of the model stay far below 2^64.
Charged == [context EXCEPT !.gas_used = @ + gas_cost(Fetch)]

\* the charge of this iteration, counted when it is the root program that runs
RootCharge ==
    /\ rootCharged' = IF callStack = <<>> THEN rootCharged + gas_cost(Fetch) ELSE rootCharged
    /\ allCharged' = allCharged + gas_cost(Fetch)

Dispatched ==
    << [op |-> Fetch.op, cost |-> gas_cost(Fetch),
        remaining |-> context.gas_limit - context.gas_used] >>

\* an Err leaves execute at once when no call_contract is in progress, and
\* otherwise returns through the call_contract invocations one by one
Raise(e) ==
    /\ error' = e
    /\ status' = IF callStack = <<>> THEN "err" ELSE "unwinding"

bcIdle == UNCHANGED bcVars
msgIdle == UNCHANGED msgVars
libIdle == UNCHANGED libVars

\* vm.rs:86-88
ExecuteOutOfGas ==
    /\ CanFetch
    /\ ~HasGas
    /\ Raise("OutOfGas")
    /\ lastExec' = <<>>
    /\ lastCall' = <<>>
    /\ UNCHANGED <<stack, context, program, pc, resources, permissions, storage,
                   events, actors, callStack, startEffects, lastOp>>
    /\ UNCHANGED <<rootCharged, allCharged>>
    /\ bcIdle
    /\ libIdle
    /\ msgIdle

\* Instruction::Push, instructions.rs:64 with VM::push, mod.rs:55-58
ExecutePush ==
    /\ CanFetch
    /\ HasGas
    /\ RootCharge
    /\ Fetch.op = "Push"
    /\ context' = Charged
    /\ stack' = Append(stack, [tag |-> Fetch.tag, v |-> Fetch.arg])
    /\ pc' = pc + 1
    /\ lastExec' = Dispatched
    /\ lastCall' = <<>>
    /\ UNCHANGED <<program, resources, permissions, storage, events, actors,
                   callStack, status, error, startEffects, lastOp>>
    /\ bcIdle
    /\ libIdle
    /\ msgIdle

\* Instruction::Pop, instructions.rs:65 with VM::pop, mod.rs:60-62
ExecutePop ==
    /\ CanFetch
    /\ HasGas
    /\ RootCharge
    /\ Fetch.op = "Pop"
    /\ context' = Charged
    /\ lastExec' = Dispatched
    /\ lastCall' = <<>>
    /\ IF stack = <<>>
       THEN /\ Raise("StackUnderflow")
            /\ UNCHANGED <<stack, pc>>
       ELSE /\ stack' = SubSeq(stack, 1, Len(stack) - 1)
            /\ pc' = pc + 1
            /\ UNCHANGED <<status, error>>
    /\ UNCHANGED <<program, resources, permissions, storage, events, actors,
                   callStack, startEffects, lastOp>>
    /\ bcIdle
    /\ libIdle
    /\ msgIdle

\* Instruction::Add, instructions.rs:67-74: b is popped, then a
ExecuteAdd ==
    /\ CanFetch
    /\ HasGas
    /\ RootCharge
    /\ Fetch.op = "Add"
    /\ context' = Charged
    /\ lastExec' = Dispatched
    /\ lastCall' = <<>>
    /\ IF Len(stack) < 2
       THEN /\ Raise("StackUnderflow")
            /\ stack' = <<>>
            /\ UNCHANGED pc
       ELSE LET b == stack[Len(stack)]
                a == stack[Len(stack) - 1]
                rest == SubSeq(stack, 1, Len(stack) - 2)
            IN  IF a.tag = "Int" /\ b.tag = "Int"
                THEN /\ stack' = Append(rest, IntV(a.v + b.v))
                     /\ pc' = pc + 1
                     /\ UNCHANGED <<status, error>>
                ELSE /\ Raise("TypeMismatch")
                     /\ stack' = rest
                     /\ UNCHANGED pc
    /\ UNCHANGED <<program, resources, permissions, storage, events, actors,
                   callStack, startEffects, lastOp>>
    /\ bcIdle
    /\ libIdle
    /\ msgIdle

\* Instruction::AcquireResource, instructions.rs:91-99
ExecuteAcquireResource ==
    /\ CanFetch
    /\ HasGas
    /\ RootCharge
    /\ Fetch.op = "AcquireResource"
    /\ context' = Charged
    /\ lastExec' = Dispatched
    /\ lastCall' = <<>>
    /\ LET r == InstrAcquireResource(resources, context.current_actor, Fetch.arg)
       IN  /\ resources' = r.resources
           /\ IF r.err = None
              THEN pc' = pc + 1 /\ UNCHANGED <<status, error>>
              ELSE Raise(r.err) /\ UNCHANGED pc
    /\ UNCHANGED <<stack, program, permissions, storage, events, actors,
                   callStack, startEffects, lastOp>>
    /\ bcIdle
    /\ libIdle
    /\ msgIdle

\* every other instruction, instructions.rs:101-102: Ok(()) and nothing else
ExecuteOther ==
    /\ CanFetch
    /\ HasGas
    /\ RootCharge
    /\ Fetch.op \notin {"Push", "Pop", "Add", "AcquireResource", "CallContract"}
    /\ context' = Charged
    /\ pc' = pc + 1
    /\ lastExec' = Dispatched
    /\ lastCall' = <<>>
    /\ UNCHANGED <<stack, program, resources, permissions, storage, events, actors,
                   callStack, status, error, startEffects, lastOp>>
    /\ bcIdle
    /\ libIdle
    /\ msgIdle

(***************************************************************************)
(* VM::call_contract, src/src/runtime/vm.rs:153-168.                       *)
(***************************************************************************)
\* vm.rs:158-159: the context the callee runs in. The u64 subtraction cannot
\* underflow here: Instruction::CallContract has checked gas_used < gas_limit.
CalleeContext(caller_context) ==
    [ExecutionContextNew(caller_context.gas_limit - caller_context.gas_used)
        EXCEPT !.caller = Some(caller_context.current_actor)]

\* vm.rs:166: the context after a call that returned Ok
RestoredContext(caller_context, callee_context) == caller_context

\* vm.rs:162-163: the context after a call that returned Err; the ? operators
\* leave before line 166
FailedCallContext(caller_context, callee_context) == callee_context

Top == callStack[Len(callStack)]
Popped == SubSeq(callStack, 1, Len(callStack) - 1)

\* Instruction::CallContract, instructions.rs:76-89, into call_contract and the
\* start of execute_contract (not part of the sources; spec 4.3 (5): the target
\* program runs to completion or failure, and the caller goes on after it)
ExecuteCallContract ==
    /\ CanFetch
    /\ HasGas
    /\ RootCharge
    /\ Fetch.op = "CallContract"
    /\ lastExec' = Dispatched
    /\ lastCall' = <<>>
    /\ IF Charged.gas_used >= Charged.gas_limit
       THEN /\ Raise("OutOfGas")
            /\ context' = Charged
            /\ UNCHANGED <<program, pc, callStack>>
       ELSE IF ~has_permission(permissions, Charged.current_actor, Fetch.arg)
       THEN /\ Raise("PermissionDenied")
            /\ context' = Charged
            /\ UNCHANGED <<program, pc, callStack>>
       ELSE LET loaded == load_contract(Fetch.arg)
                frame == [ctx |-> Charged, program |-> program, pc |-> pc,
                          effects |-> Effects]
            IN  /\ context' = CalleeContext(Charged)
                /\ callStack' = Append(callStack, frame)
                /\ IF loaded.err = None
                   THEN /\ program' = loaded.program
                        /\ pc' = 0
                        /\ UNCHANGED <<status, error>>
                   ELSE /\ status' = "unwinding"
                        /\ error' = loaded.err
                        /\ UNCHANGED <<program, pc>>
    /\ UNCHANGED <<stack, resources, permissions, storage, events, actors,
                   startEffects, lastOp>>
    /\ bcIdle
    /\ libIdle
    /\ msgIdle

\* the callee's loop ends (vm.rs:84, 97), execute_contract returns Ok, vm.rs:166
\* restores the context and the caller's loop advances (vm.rs:95)
ExecuteReturn ==
    /\ status = "running"
    /\ pc >= Len(program)
    /\ callStack # <<>>
    /\ context' = RestoredContext(Top.ctx, context)
    /\ program' = Top.program
    /\ pc' = Top.pc + 1
    /\ callStack' = Popped
    /\ lastCall' = << [result |-> "Ok", saved |-> Top.ctx, callee |-> context,
                       effects |-> Top.effects] >>
    /\ lastExec' = <<>>
    /\ UNCHANGED <<stack, resources, permissions, storage, events, actors,
                   status, error, startEffects, lastOp>>
    /\ UNCHANGED <<rootCharged, allCharged>>
    /\ bcIdle
    /\ libIdle
    /\ msgIdle

\* the root loop ends: execute returns Ok(()), vm.rs:97
ExecuteDone ==
    /\ status = "running"
    /\ pc >= Len(program)
    /\ callStack = <<>>
    /\ status' = "ok"
    /\ lastExec' = <<>>
    /\ lastCall' = <<>>
    /\ UNCHANGED <<stack, context, program, pc, resources, permissions, storage,
                   events, actors, callStack, error, startEffects, lastOp>>
    /\ UNCHANGED <<rootCharged, allCharged>>
    /\ bcIdle
    /\ libIdle
    /\ msgIdle

\* an Err returns through one call_contract invocation (the ? at vm.rs:162-163,
\* then instructions.rs:88 and vm.rs:93 of the caller)
Propagate ==
    /\ status = "unwinding"
    /\ callStack # <<>>
    /\ context' = FailedCallContext(Top.ctx, context)
    /\ callStack' = Popped
    /\ status' = IF Popped = <<>> THEN "err" ELSE "unwinding"
    /\ lastCall' = << [result |-> "Err", saved |-> Top.ctx, callee |-> context,
                       effects |-> Top.effects] >>
    /\ lastExec' = <<>>
    /\ UNCHANGED <<stack, program, pc, resources, permissions, storage, events,
                   actors, error, startEffects, lastOp>>
    /\ UNCHANGED <<rootCharged, allCharged>>
    /\ bcIdle
    /\ libIdle
    /\ msgIdle

(***************************************************************************)
(* The runtime VM running one program: VM::new (vm.rs:67-81), the fields   *)
(* an embedder sets before the run, then execute.                          *)
(***************************************************************************)
bcInit ==
    /\ bc_stack = <<>>
    /\ call_stack = <<>>
    /\ gas_left = 0
    /\ reentrancy_guard = FALSE
    /\ bc_storage = <<>>
    /\ current_contract = {}
    /\ bc_calls = 0
    /\ bc_status = "off"
    /\ bc_result = None
    /\ openStarts = 0
    /\ exits = {}
    /\ lastInstr = <<>>
    /\ slotWriter = <<>>
    /\ guardUsers = {}

msgInit ==
    /\ sent = 0
    /\ handled = <<>>
    /\ lastSend = <<>>
    /\ lastPass = <<>>

\* the library objects while a specification of another machine runs
gasInit == meter = <<>> /\ lastConsume = <<>>
memInit == pages = <<>> /\ lastMem = <<>>
regInit == region = <<>> /\ blocks = <<>> /\ lastRegion = <<>>
evInit == eventLog = <<>> /\ emitted = <<>>
tokInit == token = <<>> /\ balances = <<>> /\ lastTransfer = <<>>
ldInit == modules = <<>> /\ instances = <<>> /\ tasks = <<>> /\ lastUnload = <<>>
libInit == gasInit /\ memInit /\ regInit /\ evInit /\ tokInit /\ ldInit

InitWith(limits) ==
    /\ stack = <<>>
    /\ \E g \in limits, a \in ActorIds :
          context = [ExecutionContextNew(g) EXCEPT !.current_actor = a]
    /\ program \in Programs
    /\ pc = 0
    /\ resources \in ResourceChoices
    /\ permissions \in PermissionChoices
    /\ storage = <<>>
    /\ events = <<>>
    /\ actors = [a \in ActorIds |-> <<>>]
    /\ callStack = <<>>
    /\ status = "running"
    /\ error = None
    /\ lastExec = <<>>
    /\ lastCall = <<>>
    /\ startEffects = Effects
    /\ lastOp = <<>>
    /\ rootCharged = 0
    /\ allCharged = 0
    /\ bcInit
    /\ msgInit
    /\ libInit

Init == InitWith(GasLimits)

Next ==
    \/ ExecuteOutOfGas
    \/ ExecutePush
    \/ ExecutePop
    \/ ExecuteAdd
    \/ ExecuteAcquireResource
    \/ ExecuteOther
    \/ ExecuteCallContract
    \/ ExecuteReturn
    \/ ExecuteDone
    \/ Propagate

Spec == Init /\ [][Next]_vars

\* the same machine with a gas limit that pays for more than MAX_CALL_DEPTH calls
InitDeep == InitWith({DeepGas} \cup (0..MaxGas))

SpecDeep == InitDeep /\ [][Next]_vars

(***************************************************************************)
(* Properties of the runtime VM.                                           *)
(***************************************************************************)

\* C1: in every state reached while VM::execute runs, the gas used by the
\* current context is at most its gas limit.
C1_GasWithinLimit ==
    context.gas_used <= context.gas_limit

\* C2: an instruction whose gas cost exceeds the gas that remained
\* (gas_limit - gas_used) when it was fetched is not executed: the step that
\* reaches it ends the run with OutOfGas. (The claim also excludes that its
\* handler starts at all; a handler that starts and itself answers OutOfGas, as
\* CallContract's does, is let through here.)
C2_NoDispatchBeyondRemainingGas ==
    (lastExec # <<>> /\ lastExec[1].cost > lastExec[1].remaining)
        => (status \in {"err", "unwinding"} /\ error = "OutOfGas")

\* C5: the number of nested call_contract invocations in progress never exceeds
\* MAX_CALL_DEPTH: the call that would be the next one is rejected.
C5_CallDepthBounded ==
    Len(callStack) <= MAX_CALL_DEPTH

\* C6: when a call_contract invocation returns an error, storage, events,
\* resources and mailboxes equal their values at the moment the call started.
C6_FailedCalleeRolledBack ==
    (lastCall # <<>> /\ lastCall[1].result = "Err")
        => Effects = lastCall[1].effects

\* C7: when execute returns an error at the root, storage, events, resources
\* and mailboxes are as they were when execute started, and gas_used still
\* holds the gas charged for the root program's instructions.
C7_RootFailureLeavesNoEffect ==
    status = "err" =>
        /\ Effects = startEffects
        /\ context.gas_used >= rootCharged

\* C8: when a call_contract invocation returns an error, vm.context is the
\* caller's context again (same current_actor, caller and gas_limit), with the
\* gas the callee consumed added to the caller's gas_used.
C8_FailedCallRestoresCaller ==
    (lastCall # <<>> /\ lastCall[1].result = "Err")
        => context = [lastCall[1].saved EXCEPT
                        !.gas_used = @ + lastCall[1].callee.gas_used]

\* C9: after call_contract returns Ok, the caller's gas_used is its gas_used
\* before the call plus the gas used by the callee context.
C9_CalleeGasMerged ==
    (lastCall # <<>> /\ lastCall[1].result = "Ok")
        => context.gas_used = lastCall[1].saved.gas_used + lastCall[1].callee.gas_used

\* C22: when VM::execute has run a program to completion, gas_used (0 when the
\* run began) equals the sum of gas_cost() over the instructions executed,
\* those of called contracts included: each one was charged its tabled cost
\* exactly once.
C22_GasUsedIsSumOfCosts ==
    status = "ok" => context.gas_used = allCharged

\* the contexts of the call_contract invocations in progress, the root's first
\* and the running one last
ContextChain == [i \in 1..Len(callStack) + 1 |->
                    IF i <= Len(callStack) THEN callStack[i].ctx ELSE context]

\* C32: along a chain of nested call_contract invocations every callee's
\* gas_limit is its caller's remaining gas, gas_limit - gas_used, a
\* subtraction that does not underflow, and so the gas charged by all the
\* frames of the run together never exceeds the root context's gas_limit.
\* Stated for the runs in which a callee has been charged.
C32_NestedGasWithinRootLimit ==
    (status = "running" /\ allCharged > rootCharged) =>
        /\ \A i \in 1..Len(callStack) :
              /\ ContextChain[i].gas_used <= ContextChain[i].gas_limit
              /\ ContextChain[i + 1].gas_limit =
                    ContextChain[i].gas_limit - ContextChain[i].gas_used
        /\ allCharged <= ContextChain[1].gas_limit

(***************************************************************************)
(* The bytecode VM, src/src/vm/main.rs.                                    *)
(***************************************************************************)
MaxBcCalls == 4
MaxBcGas == 9
\* Value::U256 holds a u64; the model's word is MaxWord + 1 values wide
MaxWord == 15

\* the opcodes of VM::execute
PUSH == 1
POP == 2
LOAD == 16
STORE == 17
ADD == 32
SUB == 33
JUMP == 48
JUMPI == 49
RETURN == 50
SLOAD == 64
SSTORE == 65
NOREENTRY_START == 80
NOREENTRY_END == 81
\* a byte that is no opcode
BAD == 99

U256(n) == [tag |-> "U256", v |-> n]
\* Value::Bool(b), b as 0 or 1
BoolV(b) == [tag |-> "Bool", v |-> b]

\* The contracts deployed (deploy_contract, main.rs:108-115): the code and the
\* offsets at which its functions start (FunctionInfo.offset).
BcContracts ==
    [ A |-> [ code |-> << NOREENTRY_START, PUSH, 1, NOREENTRY_END, RETURN,
                          NOREENTRY_START, RETURN, NOREENTRY_END,
                          NOREENTRY_START, BAD, NOREENTRY_END >>,
              offsets |-> {0, 5, 8} ],
      B |-> [ code |-> << NOREENTRY_START, NOREENTRY_START, NOREENTRY_END,
                          NOREENTRY_END >>,
              offsets |-> {0} ],
      C |-> [ code |-> << PUSH, 2, PUSH, 3, ADD, SSTORE, 0, SLOAD, 0, POP, POP,
                          NOREENTRY_START, PUSH >>,
              offsets |-> {0, 4, 7, 11} ],
      D |-> [ code |-> << PUSH, 1, STORE, 0, LOAD, 0, PUSH, 2, SUB, JUMP, 12, BAD,
                          JUMPI, 0 >>,
              offsets |-> {0, 6, 12} ],
      E |-> [ code |-> << NOREENTRY_START, JUMP, 0 >>,
              offsets |-> {0} ],
      F |-> [ code |-> << SSTORE, 0, SLOAD, 0 >>,
              offsets |-> {0} ] ]
BcNames == DOMAIN BcContracts

\* FunctionInfo.params (main.rs:45) as their number: the function of F takes
\* one argument, every other function none
ParamCount(name, offset) == IF name = "F" THEN 1 ELSE 0

\* the argument lists call_function is given
ArgLists == { <<>>, << U256(MaxWord) >>, << BoolV(1) >> }

\* u64::checked_sub without the subtraction
checked_sub_free(g, n) == {g}

\* u64::checked_sub (main.rs:178): None when g < n
checked_sub(g, n) == IF g >= n THEN {g - n} ELSE {}

\* the mutex behind reentrancy_guard, std::sync::Mutex::try_lock in a single
\* thread: it fails exactly when the mutex is locked
try_lock(locked) == [ok |-> ~locked, locked |-> TRUE]

\* NOREENTRY_START with the MutexGuard kept past the end of the arm
noreentry_start_held(locked) ==
    IF try_lock(locked).ok
    THEN [ok |-> TRUE, locked |-> TRUE]
    ELSE [ok |-> FALSE, locked |-> locked]

\* NOREENTRY_START, main.rs:263-267: the MutexGuard is bound to _guard, a local
\* of the match arm, and dropped when the arm ends. Returns whether the arm
\* succeeds and whether the mutex is locked after it.
noreentry_start(locked) ==
    IF try_lock(locked).ok
    THEN [ok |-> TRUE, locked |-> FALSE]
    ELSE [ok |-> FALSE, locked |-> locked]

\* NOREENTRY_END, main.rs:268-271: drop(try_lock()) unlocks only a lock that this
\* very try_lock took
noreentry_end(locked) ==
    IF try_lock(locked).ok THEN FALSE ELSE locked

\* u64::wrapping_add and wrapping_sub (main.rs:212, 218) on the model's word
wrapping_add(a, b) == (a + b) % (MaxWord + 1)
wrapping_sub(a, b) == (a - b + MaxWord + 1) % (MaxWord + 1)

\* u64::to_le_bytes (main.rs:257) and u64::from_le_bytes of the first 8 bytes
\* (main.rs:248)
RECURSIVE LeBytes(_, _)
LeBytes(v, n) == IF n = 0 THEN <<>> ELSE <<v % 256>> \o LeBytes(v \div 256, n - 1)
to_le_bytes(v) == LeBytes(v, 8)
RECURSIVE FromLe(_)
FromLe(b) == IF b = <<>> THEN 0 ELSE b[1] + 256 * FromLe(Tail(b))
from_le_bytes(b) == FromLe(SubSeq(b, 1, 8))

rtIdle == UNCHANGED rtVars

rtInitIdle ==
    /\ stack = <<>>
    /\ context = ExecutionContextNew(0)
    /\ program = <<>>
    /\ pc = 0
    /\ resources = [r \in ResourceIds |-> {}]
    /\ permissions = {}
    /\ storage = <<>>
    /\ events = <<>>
    /\ actors = [a \in ActorIds |-> <<>>]
    /\ callStack = <<>>
    /\ status = "off"
    /\ error = None
    /\ lastExec = <<>>
    /\ lastCall = <<>>
    /\ startEffects = <<>>
    /\ lastOp = <<>>
    /\ rootCharged = 0
    /\ allCharged = 0

\* the frame the loop works on (main.rs:169) and its contract's code (main.rs:170)
Frame == call_stack[Len(call_stack)]
Code == BcContracts[Frame.contract].code
Opcode == Code[Frame.pc + 1]
\* the byte after the opcode, code[frame.pc + 1] in the source
HasOperand == Frame.pc + 1 < Len(Code)
Operand == Code[Frame.pc + 2]

\* main.rs:169-180 up to the match: a frame with code left and gas for one step
AtOpcode(op) ==
    /\ bc_status = "running"
    /\ call_stack # <<>>
    /\ Frame.pc < Len(Code)
    /\ checked_sub(gas_left, 1) # {}
    /\ Opcode = op

\* gas_left after main.rs:178
GasAfter == CHOOSE g \in checked_sub(gas_left, 1) : TRUE

SetPc(new_pc) == call_stack' = [call_stack EXCEPT ![Len(call_stack)].pc = new_pc]
PopFrame == call_stack' = SubSeq(call_stack, 1, Len(call_stack) - 1)
BcPop(st) == SubSeq(st, 1, Len(st) - 1)

\* history: the guarded regions entered and how they were left
RegionSame == UNCHANGED <<openStarts, exits>>
RegionLeft(how) ==
    /\ openStarts' = 0
    /\ exits' = IF openStarts > 0 THEN exits \cup {how} ELSE exits
\* the instruction of this step: its opcode, whether its arm succeeded, the
\* regions open before it, the contract and stack_base of its frame, its
\* operand byte and the top of the stack before it (as Options), and the
\* number of values on the stack above stack_base before it
Did(op, ok) ==
    lastInstr' = << [op |-> op, ok |-> ok, open |-> openStarts,
                     contract |-> Frame.contract, base |-> Frame.stack_base,
                     operand |-> IF HasOperand THEN {Operand} ELSE {},
                     top |-> IF bc_stack = <<>> THEN {} ELSE {bc_stack[Len(bc_stack)]},
                     depth |-> Len(bc_stack) - Frame.stack_base] >>

\* execute returns Err (the ? and the return Err of main.rs:168-278) and
\* call_function passes it on (main.rs:156); the frames stay on call_stack
BcFail(msg) ==
    /\ bc_status' = "idle"
    /\ bc_result' = msg
    /\ RegionLeft("failure")

\* an index past the end of code (main.rs:184, 195, 202, 225, 229, 244, 254)
BcPanic ==
    /\ bc_status' = "panicked"
    /\ bc_result' = "panic"
    /\ RegionSame

BcGoOn == UNCHANGED <<bc_status, bc_result>>

\* call_function, main.rs:117-156, on a function of a deployed contract
CallFunction(name, offset, args) ==
    /\ bc_status = "idle"
    /\ bc_calls < MaxBcCalls
    /\ bc_calls' = bc_calls + 1
    /\ IF Len(args) # ParamCount(name, offset)
       THEN /\ bc_result' = "Wrong number of arguments"
            /\ UNCHANGED <<bc_stack, call_stack, current_contract, bc_status>>
       ELSE /\ call_stack' = Append(call_stack,
                    [contract |-> name, pc |-> offset, stack_base |-> Len(bc_stack),
                     locals |-> <<>>])
            /\ bc_stack' = bc_stack \o args
            /\ current_contract' = {name}
            /\ bc_status' = "running"
            /\ bc_result' = None
    /\ lastInstr' = <<>>
    /\ RegionSame
    /\ UNCHANGED <<gas_left, reentrancy_guard, bc_storage>>
    /\ UNCHANGED <<slotWriter, guardUsers>>
    /\ rtIdle
    /\ libIdle
    /\ msgIdle

\* the loop ends with the call stack empty (main.rs:169, 277); call_function
\* returns Ok (main.rs:159-165, return_type None)
BcFinish ==
    /\ bc_status = "running"
    /\ call_stack = <<>>
    /\ bc_status' = "idle"
    /\ bc_result' = "ok"
    /\ lastInstr' = <<>>
    /\ RegionSame
    /\ UNCHANGED <<bc_stack, call_stack, gas_left, reentrancy_guard, bc_storage,
                   current_contract, bc_calls>>
    /\ UNCHANGED <<slotWriter, guardUsers>>
    /\ rtIdle
    /\ libIdle
    /\ msgIdle

\* main.rs:172-175: the end of the code is an implicit return
BcFrameEnd ==
    /\ bc_status = "running"
    /\ call_stack # <<>>
    /\ Frame.pc >= Len(Code)
    /\ PopFrame
    /\ lastInstr' = <<>>
    /\ RegionLeft("return")
    /\ BcGoOn
    /\ UNCHANGED <<bc_stack, gas_left, reentrancy_guard, bc_storage,
                   current_contract, bc_calls>>
    /\ UNCHANGED <<slotWriter, guardUsers>>
    /\ rtIdle
    /\ libIdle
    /\ msgIdle

\* main.rs:178-179
BcOutOfGas ==
    /\ bc_status = "running"
    /\ call_stack # <<>>
    /\ Frame.pc < Len(Code)
    /\ checked_sub(gas_left, 1) = {}
    /\ BcFail("Out of gas")
    /\ lastInstr' = <<>>
    /\ UNCHANGED <<bc_stack, call_stack, gas_left, reentrancy_guard, bc_storage,
                   current_contract, bc_calls>>
    /\ UNCHANGED <<slotWriter, guardUsers>>
    /\ rtIdle
    /\ libIdle
    /\ msgIdle

\* main.rs:183-187
BcPush ==
    /\ AtOpcode(PUSH)
    /\ gas_left' = GasAfter
    /\ Did(PUSH, HasOperand)
    /\ IF HasOperand
       THEN /\ bc_stack' = Append(bc_stack, U256(Operand))
            /\ SetPc(Frame.pc + 2)
            /\ BcGoOn
            /\ RegionSame
       ELSE /\ BcPanic
            /\ UNCHANGED <<bc_stack, call_stack>>
    /\ UNCHANGED <<reentrancy_guard, bc_storage, current_contract, bc_calls>>
    /\ UNCHANGED <<slotWriter, guardUsers>>
    /\ rtIdle
    /\ libIdle
    /\ msgIdle

\* main.rs:188-191: the result of stack.pop() is dropped
BcPopOp ==
    /\ AtOpcode(POP)
    /\ gas_left' = GasAfter
    /\ Did(POP, TRUE)
    /\ bc_stack' = BcPop(bc_stack)
    /\ SetPc(Frame.pc + 1)
    /\ BcGoOn
    /\ RegionSame
    /\ UNCHANGED <<reentrancy_guard, bc_storage, current_contract, bc_calls>>
    /\ UNCHANGED <<slotWriter, guardUsers>>
    /\ rtIdle
    /\ libIdle
    /\ msgIdle

\* main.rs:194-200
BcLoad ==
    /\ AtOpcode(LOAD)
    /\ gas_left' = GasAfter
    /\ Did(LOAD, HasOperand)
    /\ IF HasOperand
       THEN /\ bc_stack' = IF Operand \in DOMAIN Frame.locals
                           THEN Append(bc_stack, Frame.locals[Operand])
                           ELSE bc_stack
            /\ SetPc(Frame.pc + 2)
            /\ BcGoOn
            /\ RegionSame
       ELSE /\ BcPanic
            /\ UNCHANGED <<bc_stack, call_stack>>
    /\ UNCHANGED <<reentrancy_guard, bc_storage, current_contract, bc_calls>>
    /\ UNCHANGED <<slotWriter, guardUsers>>
    /\ rtIdle
    /\ libIdle
    /\ msgIdle

\* main.rs:201-207
BcStore ==
    /\ AtOpcode(STORE)
    /\ gas_left' = GasAfter
    /\ Did(STORE, HasOperand)
    /\ IF HasOperand
       THEN /\ bc_stack' = BcPop(bc_stack)
            /\ call_stack' = [call_stack EXCEPT ![Len(call_stack)] =
                    [@ EXCEPT !.pc = @ + 2,
                              !.locals = IF bc_stack # <<>>
                                         THEN (Operand :> bc_stack[Len(bc_stack)]) @@ @
                                         ELSE @]]
            /\ BcGoOn
            /\ RegionSame
       ELSE /\ BcPanic
            /\ UNCHANGED <<bc_stack, call_stack>>
    /\ UNCHANGED <<reentrancy_guard, bc_storage, current_contract, bc_calls>>
    /\ UNCHANGED <<slotWriter, guardUsers>>
    /\ rtIdle
    /\ libIdle
    /\ msgIdle

\* the two operands ADD and SUB pop (main.rs:211, 217): both pops are made
\* whatever they find
TwoPopped(st) == BcPop(BcPop(st))
BothU256(st) ==
    /\ Len(st) >= 2
    /\ st[Len(st)].tag = "U256"
    /\ st[Len(st) - 1].tag = "U256"

\* main.rs:210-215
BcAdd ==
    /\ AtOpcode(ADD)
    /\ gas_left' = GasAfter
    /\ Did(ADD, TRUE)
    /\ bc_stack' = IF BothU256(bc_stack)
                   THEN Append(TwoPopped(bc_stack),
                               U256(wrapping_add(bc_stack[Len(bc_stack) - 1].v,
                                                 bc_stack[Len(bc_stack)].v)))
                   ELSE TwoPopped(bc_stack)
    /\ SetPc(Frame.pc + 1)
    /\ BcGoOn
    /\ RegionSame
    /\ UNCHANGED <<reentrancy_guard, bc_storage, current_contract, bc_calls>>
    /\ UNCHANGED <<slotWriter, guardUsers>>
    /\ rtIdle
    /\ libIdle
    /\ msgIdle

\* main.rs:216-221
BcSub ==
    /\ AtOpcode(SUB)
    /\ gas_left' = GasAfter
    /\ Did(SUB, TRUE)
    /\ bc_stack' = IF BothU256(bc_stack)
                   THEN Append(TwoPopped(bc_stack),
                               U256(wrapping_sub(bc_stack[Len(bc_stack) - 1].v,
                                                 bc_stack[Len(bc_stack)].v)))
                   ELSE TwoPopped(bc_stack)
    /\ SetPc(Frame.pc + 1)
    /\ BcGoOn
    /\ RegionSame
    /\ UNCHANGED <<reentrancy_guard, bc_storage, current_contract, bc_calls>>
    /\ UNCHANGED <<slotWriter, guardUsers>>
    /\ rtIdle
    /\ libIdle
    /\ msgIdle

\* main.rs:224-227
BcJump ==
    /\ AtOpcode(JUMP)
    /\ gas_left' = GasAfter
    /\ Did(JUMP, HasOperand)
    /\ IF HasOperand
       THEN SetPc(Operand) /\ BcGoOn /\ RegionSame
       ELSE BcPanic /\ UNCHANGED call_stack
    /\ UNCHANGED <<bc_stack, reentrancy_guard, bc_storage, current_contract, bc_calls>>
    /\ UNCHANGED <<slotWriter, guardUsers>>
    /\ rtIdle
    /\ libIdle
    /\ msgIdle

\* main.rs:228-237: pc moves only when the value popped is a Bool
BcJumpI ==
    /\ AtOpcode(JUMPI)
    /\ gas_left' = GasAfter
    /\ Did(JUMPI, HasOperand)
    /\ IF HasOperand
       THEN /\ bc_stack' = BcPop(bc_stack)
            /\ IF bc_stack # <<>> /\ bc_stack[Len(bc_stack)].tag = "Bool"
               THEN SetPc(IF bc_stack[Len(bc_stack)].v = 1 THEN Operand ELSE Frame.pc + 2)
               ELSE UNCHANGED call_stack
            /\ BcGoOn
            /\ RegionSame
       ELSE /\ BcPanic
            /\ UNCHANGED <<bc_stack, call_stack>>
    /\ UNCHANGED <<reentrancy_guard, bc_storage, current_contract, bc_calls>>
    /\ UNCHANGED <<slotWriter, guardUsers>>
    /\ rtIdle
    /\ libIdle
    /\ msgIdle

\* main.rs:238-240
BcReturn ==
    /\ AtOpcode(RETURN)
    /\ gas_left' = GasAfter
    /\ Did(RETURN, TRUE)
    /\ PopFrame
    /\ BcGoOn
    /\ RegionLeft("return")
    /\ UNCHANGED <<bc_stack, reentrancy_guard, bc_storage, current_contract, bc_calls>>
    /\ UNCHANGED <<slotWriter, guardUsers>>
    /\ rtIdle
    /\ libIdle
    /\ msgIdle

\* main.rs:243-252
BcSLoad ==
    /\ AtOpcode(SLOAD)
    /\ gas_left' = GasAfter
    /\ Did(SLOAD, HasOperand)
    /\ IF HasOperand
       THEN /\ bc_stack' = IF Operand \in DOMAIN bc_storage
                           THEN Append(bc_stack, U256(from_le_bytes(bc_storage[Operand])))
                           ELSE bc_stack
            /\ SetPc(Frame.pc + 2)
            /\ BcGoOn
            /\ RegionSame
       ELSE /\ BcPanic
            /\ UNCHANGED <<bc_stack, call_stack>>
    /\ UNCHANGED <<reentrancy_guard, bc_storage, current_contract, bc_calls>>
    /\ UNCHANGED <<slotWriter, guardUsers>>
    /\ rtIdle
    /\ libIdle
    /\ msgIdle

\* main.rs:253-260
BcSStore ==
    /\ AtOpcode(SSTORE)
    /\ gas_left' = GasAfter
    /\ Did(SSTORE, HasOperand)
    /\ IF HasOperand
       THEN /\ bc_stack' = BcPop(bc_stack)
            /\ bc_storage' =
                 IF bc_stack # <<>> /\ bc_stack[Len(bc_stack)].tag = "U256"
                 THEN (Operand :> to_le_bytes(bc_stack[Len(bc_stack)].v)) @@ bc_storage
                 ELSE bc_storage
            /\ SetPc(Frame.pc + 2)
            /\ BcGoOn
            /\ RegionSame
       ELSE /\ BcPanic
            /\ UNCHANGED <<bc_stack, call_stack, bc_storage>>
    /\ slotWriter' =
         IF HasOperand /\ bc_stack # <<>> /\ bc_stack[Len(bc_stack)].tag = "U256"
         THEN (Operand :> Frame.contract) @@ slotWriter
         ELSE slotWriter
    /\ UNCHANGED <<reentrancy_guard, current_contract, bc_calls, guardUsers>>
    /\ rtIdle
    /\ libIdle
    /\ msgIdle

\* main.rs:263-267
BcNoReentryStart ==
    /\ AtOpcode(NOREENTRY_START)
    /\ gas_left' = GasAfter
    /\ LET r == noreentry_start(reentrancy_guard)
       IN  /\ reentrancy_guard' = r.locked
           /\ Did(NOREENTRY_START, r.ok)
           /\ IF r.ok
              THEN /\ SetPc(Frame.pc + 1)
                   /\ BcGoOn
                   /\ openStarts' = openStarts + 1
                   /\ UNCHANGED exits
              ELSE /\ BcFail("Reentrant call detected")
                   /\ UNCHANGED call_stack
    /\ guardUsers' = guardUsers \cup {Frame.contract}
    /\ UNCHANGED <<bc_stack, bc_storage, current_contract, bc_calls, slotWriter>>
    /\ rtIdle
    /\ libIdle
    /\ msgIdle

\* main.rs:268-271
BcNoReentryEnd ==
    /\ AtOpcode(NOREENTRY_END)
    /\ gas_left' = GasAfter
    /\ reentrancy_guard' = noreentry_end(reentrancy_guard)
    /\ Did(NOREENTRY_END, TRUE)
    /\ SetPc(Frame.pc + 1)
    /\ BcGoOn
    /\ openStarts' = IF openStarts > 0 THEN openStarts - 1 ELSE 0
    /\ exits' = IF openStarts = 1 THEN exits \cup {"end"} ELSE exits
    /\ guardUsers' = guardUsers \cup {Frame.contract}
    /\ UNCHANGED <<bc_stack, bc_storage, current_contract, bc_calls, slotWriter>>
    /\ rtIdle
    /\ libIdle
    /\ msgIdle

Opcodes ==
    {PUSH, POP, LOAD, STORE, ADD, SUB, JUMP, JUMPI, RETURN, SLOAD, SSTORE,
     NOREENTRY_START, NOREENTRY_END}

\* main.rs:273
BcInvalid ==
    /\ bc_status = "running"
    /\ call_stack # <<>>
    /\ Frame.pc < Len(Code)
    /\ checked_sub(gas_left, 1) # {}
    /\ Opcode \notin Opcodes
    /\ gas_left' = GasAfter
    /\ Did(Opcode, FALSE)
    /\ BcFail("Invalid opcode")
    /\ UNCHANGED <<bc_stack, call_stack, reentrancy_guard, bc_storage,
                   current_contract, bc_calls>>
    /\ UNCHANGED <<slotWriter, guardUsers>>
    /\ rtIdle
    /\ libIdle
    /\ msgIdle

\* VM::new (main.rs:77-106) with the contracts deployed and gas_left as a run of
\* earlier calls may have left it
InitBc ==
    /\ rtInitIdle
    /\ bc_stack = <<>>
    /\ call_stack = <<>>
    /\ gas_left = MaxBcGas
    /\ reentrancy_guard = FALSE
    /\ bc_storage = <<>>
    /\ current_contract = {}
    /\ bc_calls = 0
    /\ bc_status = "idle"
    /\ bc_result = None
    /\ openStarts = 0
    /\ exits = {}
    /\ lastInstr = <<>>
    /\ slotWriter = <<>>
    /\ guardUsers = {}
    /\ msgInit
    /\ libInit

NextBc ==
    \/ \E name \in BcNames : \E offset \in BcContracts[name].offsets :
          \E args \in ArgLists : CallFunction(name, offset, args)
    \/ BcFinish
    \/ BcFrameEnd
    \/ BcOutOfGas
    \/ BcPush
    \/ BcPopOp
    \/ BcLoad
    \/ BcStore
    \/ BcAdd
    \/ BcSub
    \/ BcJump
    \/ BcJumpI
    \/ BcReturn
    \/ BcSLoad
    \/ BcSStore
    \/ BcNoReentryStart
    \/ BcNoReentryEnd
    \/ BcInvalid

SpecBc == InitBc /\ [][NextBc]_vars

(***************************************************************************)
(* Properties of the reentrancy guard.                                     *)
(***************************************************************************)

\* C3: a NOREENTRY_START executed after a NOREENTRY_START whose matching
\* NOREENTRY_END has not run yet fails, and the guarded region is not entered a
\* second time.
C3_NoSecondEntry ==
    /\ openStarts <= 1
    /\ (lastInstr # <<>> /\ lastInstr[1].op = NOREENTRY_START /\ lastInstr[1].open > 0)
        => (~lastInstr[1].ok /\ bc_result = "Reentrant call detected")

C15_StoragePerContract ==
    (lastInstr # <<>> /\ lastInstr[1].op = SLOAD /\ lastInstr[1].ok) =>
        \A slot \in lastInstr[1].operand :
            slot \in DOMAIN bc_storage => slotWriter[slot] = lastInstr[1].contract

\* C16: an SSTORE(slot) that finds a value v on top of the stack, immediately
\* followed by SLOAD(slot), leaves the stack with v pushed back on top.
C16_StoreLoadRoundTrip ==
    [][ (/\ lastInstr # <<>>
         /\ lastInstr[1].op = SSTORE
         /\ lastInstr[1].ok
         /\ lastInstr[1].top # {}
         /\ lastInstr' # <<>>
         /\ lastInstr'[1].op = SLOAD
         /\ lastInstr'[1].ok
         /\ lastInstr'[1].operand = lastInstr[1].operand
         /\ lastInstr'[1].contract = lastInstr[1].contract)
            => /\ Len(bc_stack') = Len(bc_stack) + 1
               /\ {bc_stack'[Len(bc_stack')]} = lastInstr[1].top
      ]_vars

\* the operands an instruction pops
Pops(op) ==
    IF op \in {ADD, SUB} THEN 2
    ELSE IF op \in {POP, STORE, JUMPI, SSTORE} THEN 1
    ELSE 0

\* C17: an instruction that pops more operands than its frame has above its
\* stack_base fails with StackUnderflow, and no instruction leaves the stack
\* shorter than the stack_base of the frame it ran in.
C17_PopsStayAboveStackBase ==
    lastInstr # <<>> =>
        /\ lastInstr[1].depth < Pops(lastInstr[1].op)
              => (~lastInstr[1].ok /\ bc_result = "StackUnderflow")
        /\ Len(bc_stack) >= lastInstr[1].base

\* The loop of execute takes its next step whenever it has one: nothing in
\* main.rs:168-278 waits. The embedder's calls of call_function are not forced.
BcStep ==
    \/ BcFinish
    \/ BcFrameEnd
    \/ BcOutOfGas
    \/ BcPush
    \/ BcPopOp
    \/ BcLoad
    \/ BcStore
    \/ BcAdd
    \/ BcSub
    \/ BcJump
    \/ BcJumpI
    \/ BcReturn
    \/ BcSLoad
    \/ BcSStore
    \/ BcNoReentryStart
    \/ BcNoReentryEnd
    \/ BcInvalid

SpecBcFair == InitBc /\ [][NextBc]_vars /\ WF_vars(BcStep)

\* C18: every run of the interpreter loop ends: once call_function has started
\* execute, execute leaves its loop, with the call stack empty when it returns
\* Ok and with an error (out of gas among them) otherwise.
C18_LoopTerminates ==
    (bc_status = "running") ~>
        (/\ bc_status # "running"
         /\ bc_result # None
         /\ bc_result = "ok" => call_stack = <<>>)

\* the loop of contract E, which jumps backward for ever, has been ended by
\* the gas running out
C18_Witness ==
    /\ bc_status = "idle"
    /\ bc_result = "Out of gas"
    /\ gas_left = 0
    /\ call_stack # <<>>
    /\ Frame.contract = "E"
    /\ bc_calls = 1

OperandOpcodes == {PUSH, LOAD, STORE, JUMP, JUMPI, SLOAD, SSTORE}

\* C31: malformed bytecode is rejected with an error, never read out of
\* bounds: an operand-carrying opcode that is the last byte of the code, and a
\* byte that is no opcode, each end the call with an error result (the claim
\* names InvalidOperation; any error is let through here), and the
\* interpreter never panics.
C31_MalformedRejected ==
    /\ bc_status # "panicked"
    /\ (lastInstr # <<>> /\ (\/ lastInstr[1].op \notin Opcodes
                              \/ (lastInstr[1].op \in OperandOpcodes
                                     /\ lastInstr[1].operand = {})))
          => (bc_status = "idle" /\ bc_result \notin {None, "ok"})

\* C33: JUMPI always moves pc: to the jump target when the condition popped
\* is true, to the next instruction (pc + 2) in every other case.
C33_JumpIMovesPc ==
    [][ (AtOpcode(JUMPI) /\ HasOperand) =>
            call_stack'[Len(call_stack')].pc =
                IF lastInstr'[1].top = {BoolV(1)} THEN Operand ELSE Frame.pc + 2
      ]_vars

\* C34: ADD and SUB never silently wrap: when the sum or the difference of
\* two U256 operands does not fit the word, the instruction ends the call
\* with the error InvalidOperation and pushes nothing.
C34_NoSilentWrap ==
    [][ \A op \in {ADD, SUB} :
          (AtOpcode(op) /\ BothU256(bc_stack)) =>
            LET a == bc_stack[Len(bc_stack) - 1].v
                b == bc_stack[Len(bc_stack)].v
                exact == IF op = ADD THEN a + b ELSE a - b
            IN  IF exact \in 0..MaxWord
                THEN bc_stack' = Append(TwoPopped(bc_stack), U256(exact))
                ELSE /\ bc_status' = "idle"
                     /\ bc_result' = "InvalidOperation"
                     /\ Len(bc_stack') <= Len(bc_stack) - 2
      ]_vars

\* C35: when a call frame exits, by RETURN or by the end of its code, the
\* operand stack is back at the frame's stack_base: no function of the model
\* has a return type, so nothing the callee left stays on the stack.
C35_StackResetOnFrameExit ==
    [][ (call_stack # <<>> /\ Len(call_stack') < Len(call_stack)) =>
            Len(bc_stack') = Frame.stack_base
      ]_vars

(***************************************************************************)
(* The resource methods called by an embedder, in any order and by any     *)
(* actor: context is a public field (vm.rs:12) and the methods are public. *)
(***************************************************************************)
Called(op, id, r) ==
    lastOp' = << [op |-> op, actor |-> context.current_actor, id |-> id, err |-> r.err] >>

\* the acting principal changes: vm.context.current_actor is assigned
ApiSetActor(a) ==
    /\ status = "api"
    /\ context.current_actor # a
    /\ context' = [context EXCEPT !.current_actor = a]
    /\ lastOp' = <<>>
    /\ UNCHANGED <<stack, program, pc, resources, permissions, storage, events, actors,
                   callStack, status, error, lastExec, lastCall, startEffects,
                   rootCharged, allCharged>>
    /\ bcIdle
    /\ libIdle
    /\ msgIdle

\* vm.acquire_resource(id), vm.rs:120-130
ApiAcquire(id) ==
    /\ status = "api"
    /\ LET r == acquire_resource(resources, context.current_actor, id)
       IN  resources' = r.resources /\ Called("acquire", id, r)
    /\ UNCHANGED <<stack, context, program, pc, permissions, storage, events, actors,
                   callStack, status, error, lastExec, lastCall, startEffects,
                   rootCharged, allCharged>>
    /\ bcIdle
    /\ libIdle
    /\ msgIdle

\* vm.release_resource(id), vm.rs:132-142
ApiRelease(id) ==
    /\ status = "api"
    /\ LET r == release_resource(resources, context.current_actor, id)
       IN  resources' = r.resources /\ Called("release", id, r)
    /\ UNCHANGED <<stack, context, program, pc, permissions, storage, events, actors,
                   callStack, status, error, lastExec, lastCall, startEffects,
                   rootCharged, allCharged>>
    /\ bcIdle
    /\ libIdle
    /\ msgIdle

\* Instruction::AcquireResource(id).execute(vm), instructions.rs:91-99
ApiInstrAcquire(id) ==
    /\ status = "api"
    /\ LET r == InstrAcquireResource(resources, context.current_actor, id)
       IN  resources' = r.resources /\ Called("acquire", id, r)
    /\ UNCHANGED <<stack, context, program, pc, permissions, storage, events, actors,
                   callStack, status, error, lastExec, lastCall, startEffects,
                   rootCharged, allCharged>>
    /\ bcIdle
    /\ libIdle
    /\ msgIdle

InitRes ==
    /\ stack = <<>>
    /\ context = ExecutionContextNew(0)
    /\ program = <<>>
    /\ pc = 0
    /\ resources = [r \in ResourceIds |-> {}]
    /\ permissions = {}
    /\ storage = <<>>
    /\ events = <<>>
    /\ actors = [a \in ActorIds |-> <<>>]
    /\ callStack = <<>>
    /\ status = "api"
    /\ error = None
    /\ lastExec = <<>>
    /\ lastCall = <<>>
    /\ startEffects = <<>>
    /\ lastOp = <<>>
    /\ rootCharged = 0
    /\ allCharged = 0
    /\ bcInit
    /\ msgInit
    /\ libInit

NextRes ==
    \/ \E a \in ActorIds : ApiSetActor(a)
    \/ \E id \in ResourceIds \cup {UnknownId} : ApiAcquire(id)
    \/ \E id \in ResourceIds \cup {UnknownId} : ApiRelease(id)
    \/ \E id \in ResourceIds \cup {UnknownId} : ApiInstrAcquire(id)

SpecRes == InitRes /\ [][NextRes]_vars

\* C10: a resource's owner changes only from None to Some(a) by a successful
\* acquire made by actor a, or from Some(a) to None by a successful release
\* made by a; an acquire on a resource that has an owner fails with
\* ResourceUnavailable and leaves every owner unchanged.
C10_OwnerChangesOnlyByOwner ==
    [][ /\ \A r \in ResourceIds :
            resources'[r] # resources[r] =>
                /\ lastOp' # <<>>
                /\ lastOp'[1].id = r
                /\ lastOp'[1].err = None
                /\ lastOp'[1].actor = context.current_actor
                /\ \/ /\ lastOp'[1].op = "acquire"
                      /\ resources[r] = {}
                      /\ resources'[r] = Some(lastOp'[1].actor)
                   \/ /\ lastOp'[1].op = "release"
                      /\ resources[r] = Some(lastOp'[1].actor)
                      /\ resources'[r] = {}
        /\ (/\ lastOp' # <<>>
            /\ lastOp'[1].op = "acquire"
            /\ lastOp'[1].id \in ResourceIds
            /\ resources[lastOp'[1].id] # {})
            => (lastOp'[1].err = "ResourceUnavailable" /\ resources' = resources)
      ]_vars

\* actor 1 has just been refused resource 0, which actor 0 acquired and holds
C10_Witness ==
    /\ lastOp # <<>>
    /\ lastOp[1].op = "acquire"
    /\ lastOp[1].actor = 1
    /\ lastOp[1].id = 0
    /\ lastOp[1].err = "ResourceUnavailable"
    /\ resources[0] = Some(0)

\* C11: release_resource(id) on an existing resource whose owner is not the
\* calling actor (the resource may have no owner at all) fails with
\* PermissionDenied and leaves every owner unchanged, at every call.
C11_ReleaseByNonOwnerDenied ==
    [][ (/\ lastOp' # <<>>
         /\ lastOp'[1].op = "release"
         /\ lastOp'[1].id \in ResourceIds
         /\ resources[lastOp'[1].id] # Some(lastOp'[1].actor))
            => (lastOp'[1].err = "PermissionDenied" /\ resources' = resources)
      ]_vars

\* actor 1 has just been refused the release of resource 0, which actor 0 holds,
\* while resource 1 has no owner
C11_Witness ==
    /\ lastOp # <<>>
    /\ lastOp[1].op = "release"
    /\ lastOp[1].actor = 1
    /\ lastOp[1].id = 0
    /\ lastOp[1].err = "PermissionDenied"
    /\ resources[0] = Some(0)
    /\ resources[1] = {}

(***************************************************************************)
(* The actor system of the runtime VM, src/src/runtime/vm.rs:101-117,      *)
(* called by an embedder: send_message and process_messages.               *)
(***************************************************************************)
MaxSends == 3

\* an actor id that VM.actors does not hold
UnknownActor == MaxActor + 1

\* Message.payload (vm.rs:52), as the one value that tells payloads apart here
Payloads == {0, 1}

\* Message, vm.rs:49-53; seq is the number of the send_message call that
\* carried it, kept for the properties
Message(sender, receiver, payload, seq) ==
    [sender |-> sender, receiver |-> receiver, payload |-> payload, seq |-> seq]

\* send_message with the message put at the head of the mailbox
send_message_front(acts, msg) ==
    IF msg.receiver \in DOMAIN acts
    THEN [err |-> None, actors |-> [acts EXCEPT ![msg.receiver] = <<msg>> \o @]]
    ELSE [err |-> "ActorNotFound", actors |-> acts]

\* VM::send_message, vm.rs:101-108
send_message(acts, msg) ==
    IF msg.receiver \in DOMAIN acts
    THEN [err |-> None, actors |-> [acts EXCEPT ![msg.receiver] = Append(@, msg)]]
    ELSE [err |-> "ActorNotFound", actors |-> acts]

\* VM::handle_message, called at vm.rs:113; its body is not part of the sources.
\* Spec 4.6: the message is dispatched to the receiving actor's handler, which
\* runs to completion; spec 4.2: a handler failure propagates as an error. The
\* handler here fails on payload 0 and changes no mailbox.
RejectedPayload == 0
handle_message(actor, msg) ==
    IF msg.payload = RejectedPayload THEN "InvalidOperation" ELSE None

\* Vec::pop, vm.rs:112: the last element and the rest
mailbox_pop(mailbox) ==
    [msg |-> mailbox[Len(mailbox)], rest |-> SubSeq(mailbox, 1, Len(mailbox) - 1)]

Handling(actor, msg) == [actor |-> actor, msg |-> msg]

\* the inner loop with `if let` in place of `while let`: one message an actor
DrainMailboxOnce(actor, mailbox) ==
    IF mailbox = <<>>
    THEN [handled |-> <<>>, mailbox |-> <<>>, err |-> None]
    ELSE [handled |-> << Handling(actor, mailbox_pop(mailbox).msg) >>,
          mailbox |-> mailbox_pop(mailbox).rest,
          err |-> handle_message(actor, mailbox_pop(mailbox).msg)]

\* vm.rs:112-114: the inner loop on one actor's mailbox. Returns the handler
\* invocations made, the mailbox left and the error that ended the loop.
RECURSIVE DrainMailbox(_, _)
DrainMailbox(actor, mailbox) ==
    IF mailbox = <<>>
    THEN [handled |-> <<>>, mailbox |-> <<>>, err |-> None]
    ELSE LET p == mailbox_pop(mailbox)
             e == handle_message(actor, p.msg)
             r == DrainMailbox(actor, p.rest)
         IN  IF e # None
             THEN [handled |-> << Handling(actor, p.msg) >>, mailbox |-> p.rest, err |-> e]
             ELSE [handled |-> << Handling(actor, p.msg) >> \o r.handled,
                   mailbox |-> r.mailbox, err |-> r.err]

\* VM::process_messages, vm.rs:110-117, with the actors visited in the given
\* order (the order of HashMap::values_mut)
RECURSIVE process_messages(_, _)
process_messages(acts, order) ==
    IF order = <<>>
    THEN [actors |-> acts, handled |-> <<>>, err |-> None]
    ELSE LET a == Head(order)
             d == DrainMailbox(a, acts[a])
             left == [acts EXCEPT ![a] = d.mailbox]
             r == process_messages(left, Tail(order))
         IN  IF d.err # None
             THEN [actors |-> left, handled |-> d.handled, err |-> d.err]
             ELSE [actors |-> r.actors, handled |-> d.handled \o r.handled,
                   err |-> r.err]

\* the orders in which a HashMap holding these keys may yield them: the order
\* depends on the map's RandomState and its history, not on its contents alone
IterationOrders(keys) ==
    { o \in [1..Cardinality(keys) -> keys] : \A k \in keys : \E i \in DOMAIN o : o[i] = k }

\* vm.send_message(msg), vm.rs:101-108
ApiSendMessage(receiver, payload) ==
    /\ status = "api"
    /\ sent < MaxSends
    /\ LET msg == Message(context.current_actor, receiver, payload, sent + 1)
           r == send_message(actors, msg)
       IN  /\ actors' = r.actors
           /\ lastSend' = << [msg |-> msg, err |-> r.err] >>
    /\ sent' = sent + 1
    /\ lastPass' = <<>>
    /\ UNCHANGED handled
    /\ UNCHANGED <<stack, context, program, pc, resources, permissions, storage, events,
                   callStack, status, error, lastExec, lastCall, startEffects, lastOp,
                   rootCharged, allCharged>>
    /\ bcIdle
    /\ libIdle

\* vm.process_messages(), vm.rs:110-117
ApiProcessMessages(order) ==
    /\ status = "api"
    /\ LET r == process_messages(actors, order)
       IN  /\ actors' = r.actors
           /\ handled' = handled \o r.handled
           /\ lastPass' = << [start |-> actors, handled |-> r.handled,
                              err |-> r.err] >>
    /\ lastSend' = <<>>
    /\ UNCHANGED sent
    /\ UNCHANGED <<stack, context, program, pc, resources, permissions, storage, events,
                   callStack, status, error, lastExec, lastCall, startEffects, lastOp,
                   rootCharged, allCharged>>
    /\ bcIdle
    /\ libIdle

InitMsg == InitRes

NextMsg ==
    \/ \E receiver \in ActorIds \cup {UnknownActor}, payload \in Payloads :
          ApiSendMessage(receiver, payload)
    \/ \E order \in IterationOrders(DOMAIN actors) : ApiProcessMessages(order)

SpecMsg == InitMsg /\ [][NextMsg]_vars

(***************************************************************************)
(* Properties of the actor system.                                         *)
(***************************************************************************)

\* C12: messages sent to the same actor are handled in the order they were
\* sent: of two handle_message invocations for one actor, the earlier one is
\* on the message whose send_message call came first.
C12_MailboxFifo ==
    \A i, j \in DOMAIN handled :
        (i < j /\ handled[i].actor = handled[j].actor)
            => handled[i].msg.seq < handled[j].msg.seq

\* every message queued in start is in the sequence hs of handler invocations
\* exactly once, under its own actor, and hs holds nothing else
ExactlyOnce(start, hs) ==
    /\ \A a \in DOMAIN start : \A k \in DOMAIN start[a] :
          Cardinality({ i \in DOMAIN hs : hs[i] = Handling(a, start[a][k]) }) = 1
    /\ \A i \in DOMAIN hs : \E a \in DOMAIN start : \E k \in DOMAIN start[a] :
          hs[i] = Handling(a, start[a][k])

\* C13: send_message invokes no handler, and a process_messages pass that
\* returns Ok has invoked handle_message exactly once on every message that was
\* queued when it began, one after the other, and leaves every mailbox empty.
C13_DeferredExactlyOnce ==
    [][ /\ lastSend' # <<>> => handled' = handled
        /\ (lastPass' # <<>> /\ lastPass'[1].err = None) =>
              /\ \A a \in DOMAIN actors' : actors'[a] = <<>>
              /\ ExactlyOnce(actors, lastPass'[1].handled)
              /\ handled' = handled \o lastPass'[1].handled
      ]_vars

\* a pass has just returned Ok after handling messages of both actors, one of
\* which had several queued
C13_Witness ==
    /\ lastPass # <<>>
    /\ lastPass[1].err = None
    /\ \A a \in ActorIds : lastPass[1].start[a] # <<>>
    /\ \E a \in ActorIds : Len(lastPass[1].start[a]) >= 2
    /\ Len(handled) = sent

\* C14: send_message to a receiver that is not a known actor fails with
\* ActorNotFound and changes no mailbox; to a known receiver it succeeds and
\* puts the message behind the messages of that actor's mailbox, which keep
\* their order, and changes no other mailbox.
C14_SendAppendsAtTail ==
    [][ lastSend' # <<>> =>
          LET msg == lastSend'[1].msg
              to == msg.receiver
          IN  IF to \notin DOMAIN actors
              THEN /\ lastSend'[1].err = "ActorNotFound"
                   /\ actors' = actors
              ELSE /\ lastSend'[1].err = None
                   /\ Len(actors'[to]) = Len(actors[to]) + 1
                   /\ actors'[to][Len(actors'[to])] = msg
                   /\ SubSeq(actors'[to], 1, Len(actors[to])) = actors[to]
                   /\ \A a \in DOMAIN actors \ {to} : actors'[a] = actors[a]
      ]_vars

\* a message has just been queued behind another one in actor 1's mailbox,
\* after a send to an unknown actor was refused and left the mailboxes alone
C14_Witness ==
    /\ lastSend # <<>>
    /\ lastSend[1].err = None
    /\ lastSend[1].msg.receiver = 1
    /\ Len(actors[1]) = 2
    /\ actors[1][2] = lastSend[1].msg
    /\ actors[0] = <<>>
    /\ handled = <<>>
    /\ sent > Len(actors[1])

\* C19: what a process_messages pass does is fixed by the state it starts in:
\* whatever the order in which the actors map yields its entries, the pass
\* makes the same handler invocations in the same sequence, returns the same
\* result and leaves the same mailboxes.
C19_PassDeterministic ==
    lastPass # <<>> =>
        \A o \in IterationOrders(DOMAIN lastPass[1].start) :
            LET r == process_messages(lastPass[1].start, o)
            IN  /\ r.handled = lastPass[1].handled
                /\ r.err = lastPass[1].err
                /\ r.actors = actors

\* C37: when handle_message fails during a process_messages pass, no message
\* is lost: every message queued when the pass began that was not successfully
\* handled, the one whose handler failed included, is in its actor's mailbox
\* when the pass returns the error.
C37_FailedPassKeepsMessages ==
    (lastPass # <<>> /\ lastPass[1].err # None) =>
        LET hs == lastPass[1].handled
            succeeded == SubSeq(hs, 1, Len(hs) - 1)
        IN  \A a \in DOMAIN lastPass[1].start : \A k \in DOMAIN lastPass[1].start[a] :
                (\A i \in DOMAIN succeeded :
                     succeeded[i] # Handling(a, lastPass[1].start[a][k]))
                  => \E j \in DOMAIN actors[a] : actors[a][j] = lastPass[1].start[a][k]

(***************************************************************************)
(* GasMeter, src/src/stdlib/core/gas.rs.                                   *)
(***************************************************************************)
\* the largest u64 of the model: the meter's fields are MaxU64 + 1 values wide
MaxU64 == 7
U64 == 0..MaxU64

\* u64::saturating_sub and u64::saturating_add
saturating_sub(a, b) == IF a >= b THEN a - b ELSE 0
saturating_add(a, b) == IF a + b <= MaxU64 THEN a + b ELSE MaxU64

\* GasMeter::new, gas.rs:12-18
GasMeterNew(limit) == [remaining |-> limit, limit |-> limit, used |-> 0]

\* consume with > for the >= of gas.rs:22
consume_strict(m, amount) ==
    IF m.remaining > amount
    THEN [err |-> None,
          meter |-> [m EXCEPT !.remaining = saturating_sub(@, amount),
                              !.used = saturating_add(@, amount)]]
    ELSE [err |-> "OutOfGas", meter |-> m]

\* consume whose failing branch spends what was left
consume_draining(m, amount) ==
    IF m.remaining >= amount
    THEN [err |-> None,
          meter |-> [m EXCEPT !.remaining = saturating_sub(@, amount),
                              !.used = saturating_add(@, amount)]]
    ELSE [err |-> "OutOfGas", meter |-> [m EXCEPT !.remaining = 0]]

\* GasMeter::consume, gas.rs:21-29
consume(m, amount) ==
    IF m.remaining >= amount
    THEN [err |-> None,
          meter |-> [m EXCEPT !.remaining = saturating_sub(@, amount),
                              !.used = saturating_add(@, amount)]]
    ELSE [err |-> "OutOfGas", meter |-> m]

\* the variables of the VMs while a library object is exercised
vmInit == rtInitIdle /\ bcInit /\ msgInit
vmIdle == rtIdle /\ bcIdle /\ msgIdle

Consume(amount) ==
    /\ meter # <<>>
    /\ LET r == consume(meter, amount)
       IN  /\ meter' = r.meter
           /\ lastConsume' = << [amount |-> amount, before |-> meter, err |-> r.err] >>
    /\ vmIdle
    /\ UNCHANGED <<memVars, regVars, evVars, tokVars, ldVars>>

InitGas ==
    /\ \E limit \in U64 : meter = GasMeterNew(limit)
    /\ lastConsume = <<>>
    /\ memInit /\ regInit /\ evInit /\ tokInit /\ ldInit
    /\ vmInit

NextGas == \E amount \in U64 : Consume(amount)

SpecGas == InitGas /\ [][NextGas]_vars

\* C21: GasMeter::consume(amount) fails with OutOfGas exactly when amount is
\* greater than remaining; otherwise it succeeds, remaining goes down by
\* exactly amount and used goes up by exactly amount; limit never changes.
C21_ConsumeExact ==
    lastConsume # <<>> =>
        LET c == lastConsume[1]
        IN  /\ c.err \in {None, "OutOfGas"}
            /\ (c.err = "OutOfGas") <=> (c.amount > c.before.remaining)
            /\ c.err = None =>
                  /\ meter.remaining = c.before.remaining - c.amount
                  /\ meter.used = c.before.used + c.amount
            /\ meter.limit = c.before.limit

\* a consume of all the gas that was left, after an earlier consume
C21_Witness ==
    /\ lastConsume # <<>>
    /\ lastConsume[1].err = None
    /\ lastConsume[1].amount > 0
    /\ lastConsume[1].amount = lastConsume[1].before.remaining
    /\ lastConsume[1].before.used > 0
    /\ meter.remaining = 0

\* C36: over every sequence of GasMeter::consume calls used + remaining = limit
\* holds, used never decreases, and a consume that fails with OutOfGas leaves
\* remaining and used as they were.
C36_MeterBalanced ==
    /\ [](meter # <<>> => meter.used + meter.remaining = meter.limit)
    /\ [][ /\ meter'.used >= meter.used
           /\ lastConsume'[1].err = "OutOfGas" =>
                 (meter'.remaining = meter.remaining /\ meter'.used = meter.used)
         ]_<<meter, lastConsume>>

\* a consume that failed on a meter that had gas used and gas left
C36_Witness ==
    /\ lastConsume # <<>>
    /\ lastConsume[1].err = "OutOfGas"
    /\ lastConsume[1].before.used > 0
    /\ lastConsume[1].before.remaining > 0
    /\ meter = lastConsume[1].before

(***************************************************************************)
(* MemoryManager and Page, src/src/core/memory.rs:84-165.                  *)
(***************************************************************************)
\* memory.rs:113-114
PAGE_SIZE == 65536
MAX_PAGES == 16384

\* the calls made on one MemoryManager
MaxMemOps == 3

\* the offsets of a page the model keeps: its first and its last byte
Offsets == {0, PAGE_SIZE - 1}
\* Page::new, memory.rs:90-94
PageNew == [o \in Offsets |-> 0]

\* Page::read, memory.rs:96-101
PageRead(page, offset) ==
    IF offset >= PAGE_SIZE
    THEN [err |-> "InvalidOperation", value |-> {}]
    ELSE [err |-> None, value |-> Some(page[offset])]

\* Page::write, memory.rs:103-109
PageWrite(page, offset, value) ==
    IF offset >= PAGE_SIZE
    THEN [err |-> "InvalidOperation", page |-> page]
    ELSE [err |-> None, page |-> [page EXCEPT ![offset] = value]]

\* MemoryManager.pages, a Vec<Option<Page>>, is kept as its length and the
\* entries that are no longer an untouched Some(Page::new()).
\* self.pages.get(page_idx).and_then(|p| p.as_ref()), memory.rs:150 and 160
PageAt(p, page_idx) ==
    IF page_idx >= p.len THEN {}
    ELSE IF page_idx \in DOMAIN p.entry THEN p.entry[page_idx]
    ELSE Some(PageNew)

\* self.pages[page_idx] = e
SetEntry(p, page_idx, e) ==
    [p EXCEPT !.entry = [i \in DOMAIN p.entry \cup {page_idx} |->
                            IF i = page_idx THEN e ELSE p.entry[i]]]

\* MemoryManager::new followed by n calls of allocate_page, memory.rs:122-136
FreshPages(n) == [len |-> n, entry |-> <<>>]

\* allocate_page with > for the >= of memory.rs:129
allocate_page_late(p) ==
    IF p.len > MAX_PAGES
    THEN [err |-> "OutOfMemory", pages |-> p, idx |-> {}]
    ELSE [err |-> None,
          pages |-> SetEntry([p EXCEPT !.len = @ + 1], p.len, Some(PageNew)),
          idx |-> Some(p.len)]

\* MemoryManager::allocate_page, memory.rs:128-136
allocate_page(p) ==
    IF p.len >= MAX_PAGES
    THEN [err |-> "OutOfMemory", pages |-> p, idx |-> {}]
    ELSE [err |-> None,
          pages |-> SetEntry([p EXCEPT !.len = @ + 1], p.len, Some(PageNew)),
          idx |-> Some(p.len)]

\* MemoryManager::free_page, memory.rs:138-144
free_page(p, page_idx) ==
    IF page_idx >= p.len
    THEN [err |-> "InvalidOperation", pages |-> p]
    ELSE [err |-> None, pages |-> SetEntry(p, page_idx, {})]

\* MemoryManager::read_memory, memory.rs:146-154
read_memory(p, addr) ==
    LET page_idx == addr \div PAGE_SIZE
        offset == addr % PAGE_SIZE
        page == PageAt(p, page_idx)
    IN  IF page = {}
        THEN [err |-> "InvalidOperation", value |-> {}]
        ELSE PageRead(CHOOSE pg \in page : TRUE, offset)

\* write_memory that maps a fresh page where memory.rs:162 answers with an error
write_memory_growing(p, addr, value) ==
    LET page_idx == addr \div PAGE_SIZE
        offset == addr % PAGE_SIZE
        page == PageAt(p, page_idx)
    IN  IF page = {}
        THEN [err |-> "InvalidOperation",
              pages |-> SetEntry([p EXCEPT !.len = IF @ > page_idx THEN @ ELSE page_idx + 1],
                                 page_idx, Some(PageNew))]
        ELSE LET w == PageWrite(CHOOSE pg \in page : TRUE, offset, value)
             IN  [err |-> w.err, pages |-> SetEntry(p, page_idx, Some(w.page))]

\* MemoryManager::write_memory, memory.rs:156-164
write_memory(p, addr, value) ==
    LET page_idx == addr \div PAGE_SIZE
        offset == addr % PAGE_SIZE
        page == PageAt(p, page_idx)
    IN  IF page = {}
        THEN [err |-> "InvalidOperation", pages |-> p]
        ELSE LET w == PageWrite(CHOOSE pg \in page : TRUE, offset, value)
             IN  [err |-> w.err, pages |-> SetEntry(p, page_idx, Some(w.page))]

\* the page indexes and addresses the calls are made with: the first page, the
\* last page a manager can hold and the first one it cannot
PageIdxs == {0, MAX_PAGES - 1, MAX_PAGES}
Addrs == {0, PAGE_SIZE - 1, (MAX_PAGES - 1) * PAGE_SIZE, MAX_PAGES * PAGE_SIZE}
Bytes == {1}

\* one more call on the manager, recorded with the page table it found
MemCall(op, arg, err, out) ==
    /\ lastMem.n < MaxMemOps
    /\ lastMem' = [n |-> lastMem.n + 1,
                   call |-> << [op |-> op, arg |-> arg, err |-> err, out |-> out,
                                before |-> pages] >>]
    /\ vmIdle
    /\ UNCHANGED <<gasVars, regVars, evVars, tokVars, ldVars>>

AllocatePage ==
    LET r == allocate_page(pages)
    IN  /\ pages' = r.pages
        /\ MemCall("allocate_page", {}, r.err, r.idx)

FreePage(page_idx) ==
    LET r == free_page(pages, page_idx)
    IN  /\ pages' = r.pages
        /\ MemCall("free_page", Some(page_idx), r.err, {})

ReadMemory(addr) ==
    LET r == read_memory(pages, addr)
    IN  /\ pages' = pages
        /\ MemCall("read_memory", Some(addr), r.err, r.value)

WriteMemory(addr, value) ==
    LET r == write_memory(pages, addr, value)
    IN  /\ pages' = r.pages
        /\ MemCall("write_memory", Some(addr), r.err, {})

InitMem ==
    /\ pages \in {FreshPages(0), FreshPages(MAX_PAGES - 1)}
    /\ lastMem = [n |-> 0, call |-> <<>>]
    /\ gasInit /\ regInit /\ evInit /\ tokInit /\ ldInit
    /\ vmInit

NextMem ==
    \/ AllocatePage
    \/ \E page_idx \in PageIdxs : FreePage(page_idx)
    \/ \E addr \in Addrs : ReadMemory(addr)
    \/ \E addr \in Addrs, value \in Bytes : WriteMemory(addr, value)

SpecMem == InitMem /\ [][NextMem]_vars

\* C23: the MemoryManager never holds more than MAX_PAGES pages. allocate_page
\* fails with OutOfMemory and changes nothing once MAX_PAGES pages have been
\* reached; otherwise it returns the index of a new page, which is zero-filled,
\* and leaves the pages that existed as they were.
C23_PagesBounded ==
    /\ pages.len <= MAX_PAGES
    /\ (lastMem.call # <<>> /\ lastMem.call[1].op = "allocate_page") =>
          LET c == lastMem.call[1]
          IN  IF c.before.len >= MAX_PAGES
              THEN c.err = "OutOfMemory" /\ c.out = {} /\ pages = c.before
              ELSE /\ c.err = None
                   /\ c.out = Some(c.before.len)
                   /\ pages.len = c.before.len + 1
                   /\ PageAt(c.before, c.before.len) = {}
                   /\ PageAt(pages, c.before.len) = Some(PageNew)
                   /\ \A i \in PageIdxs \ {c.before.len} :
                         PageAt(pages, i) = PageAt(c.before, i)

\* allocate_page has been refused on a manager that holds MAX_PAGES pages,
\* right after the call that mapped the last of them
C23_Witness ==
    /\ lastMem.call # <<>>
    /\ lastMem.call[1].op = "allocate_page"
    /\ lastMem.call[1].err = "OutOfMemory"
    /\ pages.len = MAX_PAGES
    /\ (MAX_PAGES - 1) \in DOMAIN pages.entry

\* C24: read_memory and write_memory on an address whose page was never
\* allocated, or whose page free_page has freed, fail with InvalidOperation
\* and leave the page table as it was: no page is allocated implicitly.
C24_UnmappedAccessFails ==
    (lastMem.call # <<>> /\ lastMem.call[1].op \in {"read_memory", "write_memory"}) =>
        LET c == lastMem.call[1]
            addr == CHOOSE a \in c.arg : TRUE
        IN  PageAt(c.before, addr \div PAGE_SIZE) = {} =>
                /\ c.err = "InvalidOperation"
                /\ c.out = {}
                /\ pages = c.before

\* a write to page 0 has failed after the page was allocated and then freed
C24_Witness ==
    /\ lastMem.call # <<>>
    /\ lastMem.call[1].op = "write_memory"
    /\ lastMem.call[1].arg = Some(PAGE_SIZE - 1)
    /\ lastMem.call[1].err = "InvalidOperation"
    /\ pages.len = 1
    /\ 0 \in DOMAIN pages.entry
    /\ pages.entry[0] = {}

(***************************************************************************)
(* Region, src/src/core/memory.rs:5-74.                                    *)
(***************************************************************************)
\* the largest usize of the model: sizes and offsets are MaxUsize + 1 values wide
MaxUsize == 15
\* the calls made on one Region
MaxRegionOps == 3

\* a + b on usize, memory.rs:34, 39 and 50. When the sum does not fit, a build
\* with overflow checks panics and a build without them wraps around.
usize_add(a, b) ==
    IF a + b <= MaxUsize
    THEN { [panic |-> FALSE, v |-> a + b] }
    ELSE { [panic |-> TRUE, v |-> 0],
           [panic |-> FALSE, v |-> (a + b) % (MaxUsize + 1)] }

\* Region::new, memory.rs:15-30. Pointers into the region are kept as their
\* offset from Region.ptr.
RegionNew(capacity) == [capacity |-> capacity, size |-> 0, status |-> "ok"]

Panicked(r) == [err |-> "panic", region |-> [r EXCEPT !.status = "panicked"], out |-> {}]

\* Region::allocate, memory.rs:33-42: the outcomes a build can produce
allocate(r, size) ==
    { IF s.panic THEN Panicked(r)
      ELSE IF s.v > r.capacity
      THEN [err |-> "OutOfMemory", region |-> r, out |-> {}]
      ELSE [err |-> None, region |-> [r EXCEPT !.size = s.v], out |-> Some(r.size)]
      : s \in usize_add(r.size, size) }

\* Region::deallocate, memory.rs:45-53, for a ptr that lies offset bytes
\* behind Region.ptr
deallocate(r, offset, size) ==
    { IF s.panic THEN Panicked(r)
      ELSE IF s.v = r.size
      THEN [err |-> None, region |-> [r EXCEPT !.size = offset], out |-> {}]
      ELSE [err |-> None, region |-> r, out |-> {}]
      : s \in usize_add(offset, size) }

\* Region::clear, memory.rs:71-73
clear(r) == [r EXCEPT !.size = 0]

RegionCapacity == 4
\* sizes asked for: nothing, a part of the region, and the largest usize
AllocSizes == {0, 1, 2, MaxUsize}
\* pointers handed to deallocate: into the region, up to one past its end
PtrOffsets == 0..RegionCapacity

Block(offset, size) == [offset |-> offset, size |-> size]
LastBlock(bs) == bs[Len(bs)]

\* the blocks that are still live once the used size has gone back to size
LiveBelow(bs, size) ==
    SelectSeq(bs, LAMBDA b : b.offset + b.size <= size)

RegionCall(op, arg, r) ==
    /\ region.status = "ok"
    /\ lastRegion.n < MaxRegionOps
    /\ region' = r.region
    /\ lastRegion' = [n |-> lastRegion.n + 1,
                      call |-> << [op |-> op, arg |-> arg, err |-> r.err, out |-> r.out,
                                   before |-> region, live |-> blocks] >>]
    /\ vmIdle
    /\ UNCHANGED <<gasVars, memVars, evVars, tokVars, ldVars>>

RegionAllocate(size) ==
    \E r \in allocate(region, size) :
        /\ RegionCall("allocate", Block(0, size), r)
        /\ blocks' = IF r.err = None
                     THEN Append(blocks, Block(region.size, size))
                     ELSE blocks

RegionDeallocate(offset, size) ==
    \E r \in deallocate(region, offset, size) :
        /\ RegionCall("deallocate", Block(offset, size), r)
        /\ blocks' = IF blocks # <<>> /\ LastBlock(blocks) = Block(offset, size)
                        /\ r.region.size = offset
                     THEN SubSeq(blocks, 1, Len(blocks) - 1)
                     ELSE IF r.region.size # region.size
                     THEN LiveBelow(blocks, r.region.size)
                     ELSE blocks

RegionClear ==
    /\ RegionCall("clear", Block(0, 0), [err |-> None, region |-> clear(region), out |-> {}])
    /\ blocks' = <<>>

InitRegion ==
    /\ region = RegionNew(RegionCapacity)
    /\ blocks = <<>>
    /\ lastRegion = [n |-> 0, call |-> <<>>]
    /\ gasInit /\ memInit /\ evInit /\ tokInit /\ ldInit
    /\ vmInit

NextRegion ==
    \/ \E size \in AllocSizes : RegionAllocate(size)
    \/ \E offset \in PtrOffsets, size \in AllocSizes : RegionDeallocate(offset, size)
    \/ RegionClear

SpecRegion == InitRegion /\ [][NextRegion]_vars

\* C25: Region::allocate(size) fails with OutOfMemory exactly when size + used
\* is greater than capacity, and then leaves the region unchanged; otherwise it
\* returns the block that starts at the previous used offset and used grows by
\* size. used <= capacity holds after every sequence of allocate, deallocate
\* and clear.
C25_AllocateWithinCapacity ==
    /\ region.size <= region.capacity
    /\ (lastRegion.call # <<>> /\ lastRegion.call[1].op = "allocate") =>
          LET c == lastRegion.call[1]
          IN  IF c.arg.size + c.before.size > c.before.capacity
              THEN c.err = "OutOfMemory" /\ region = c.before
              ELSE /\ c.err = None
                   /\ c.out = Some(c.before.size)
                   /\ region.size = c.before.size + c.arg.size

\* C26: Region::deallocate(ptr, size) reduces the used size only when
\* (ptr, size) is exactly the most recently allocated block that is still
\* live; for every other (ptr, size) it returns without an effect, used
\* included.
C26_OnlyLastBlockFreed ==
    (lastRegion.call # <<>> /\ lastRegion.call[1].op = "deallocate") =>
        LET c == lastRegion.call[1]
        IN  (c.live = <<>> \/ LastBlock(c.live) # c.arg) => region = c.before

(***************************************************************************)
(* EventLog, src/src/stdlib/core/events.rs:45-80, and VM::emit_event,      *)
(* src/src/runtime/vm.rs:170-172.                                          *)
(***************************************************************************)
\* the events emitted on one log and one VM together
MaxEvents == 3

\* Event, events.rs:6-11: its name and its data
EventValues == [name : {"Transfer", "Approval"}, data : {0, 1}]

\* EventLog::add_event, events.rs:60-62
add_event(log, event) == Append(log, event)

\* EventLog::clear, events.rs:77-79
log_clear(log) == <<>>

\* VM::emit_event, vm.rs:170-172
emit_event(evs, event) == Append(evs, event)

CanEmit == Len(emitted.log) + Len(emitted.vm) < MaxEvents

AddEvent(event) ==
    /\ CanEmit
    /\ eventLog' = add_event(eventLog, event)
    /\ emitted' = [emitted EXCEPT !.log = Append(@, event)]
    /\ vmIdle
    /\ UNCHANGED <<gasVars, memVars, regVars, tokVars, ldVars>>

ClearEvents ==
    /\ eventLog' = log_clear(eventLog)
    /\ UNCHANGED emitted
    /\ vmIdle
    /\ UNCHANGED <<gasVars, memVars, regVars, tokVars, ldVars>>

EmitEvent(event) ==
    /\ CanEmit
    /\ events' = emit_event(events, event)
    /\ emitted' = [emitted EXCEPT !.vm = Append(@, event)]
    /\ UNCHANGED <<stack, context, program, pc, resources, permissions, storage,
                   actors, callStack, status, error, lastExec, lastCall,
                   startEffects, lastOp, rootCharged, allCharged>>
    /\ bcIdle
    /\ msgIdle
    /\ UNCHANGED <<eventLog, gasVars, memVars, regVars, tokVars, ldVars>>

InitEvents ==
    /\ eventLog = <<>>
    /\ emitted = [log |-> <<>>, vm |-> <<>>]
    /\ gasInit /\ memInit /\ regInit /\ tokInit /\ ldInit
    /\ vmInit

NextEvents ==
    \/ \E event \in EventValues : AddEvent(event)
    \/ ClearEvents
    \/ \E event \in EventValues : EmitEvent(event)

SpecEvents == InitEvents /\ [][NextEvents]_vars

\* C27: the event log is append-only. Whatever operations of EventLog and
\* VM::emit_event have been called, the log holds every event emitted so far,
\* unmodified and in emission order: none has been removed or moved.
C27_EventLogAppendOnly ==
    /\ eventLog = emitted.log
    /\ events = emitted.vm

(***************************************************************************)
(* Token, src/src/examples/simple_token.rs, on Map,                        *)
(* src/src/stdlib/collections/mod.rs:3-54.                                 *)
(***************************************************************************)
\* the gas limit of the meter the caller of the token charges
CallerGas == 1

\* Address([0; 32]), Address([1; 32]), Address([2; 32]): the creator of
\* simple_token.rs:27 and the two addresses of simple_token.rs:66-67
Creator == 0
TokenAddrs == {Creator, 1, 2}

\* the key Map builds at collections/mod.rs:19 and 34: prefix, then the key
StorageKey(prefix, key) == <<prefix, key>>
BalancesPrefix == "token_balances"

\* storage::get and storage::set, called at collections/mod.rs:21 and 36; the
\* storage module is not part of the sources, nor are the Serialize
\* implementations of Address and u64. Spec 4.4 (StorageStore get and set): a
\* key reads back the value set for it last, and None before any set.
storage_get(store, storage_key) ==
    IF storage_key \in DOMAIN store THEN Some(store[storage_key]) ELSE {}

storage_set(store, storage_key, value) ==
    [k \in DOMAIN store \cup {storage_key} |->
        IF k = storage_key THEN value ELSE store[k]]

\* Map::get, collections/mod.rs:17-29, and Map::set, collections/mod.rs:31-38
MapGet(store, key) == storage_get(store, StorageKey(BalancesPrefix, key))
MapSet(store, key, value) == storage_set(store, StorageKey(BalancesPrefix, key), value)

\* Option::unwrap_or(0), simple_token.rs:35, 42 and 49
unwrap_or_0(opt) == IF opt = {} THEN 0 ELSE CHOOSE v \in opt : TRUE

\* a + b on u64, simple_token.rs:43. When the sum does not fit, a build with
\* overflow checks panics and a build without them wraps around.
u64_add(a, b) ==
    IF a + b <= MaxU64
    THEN { [panic |-> FALSE, v |-> a + b] }
    ELSE { [panic |-> TRUE, v |-> 0],
           [panic |-> FALSE, v |-> (a + b) % (MaxU64 + 1)] }

\* Token::new that mints nothing, without simple_token.rs:28
TokenNew_unminted(store, initial_supply) ==
    [token |-> [total_supply |-> initial_supply],
     balances |-> store]

\* Token::new, simple_token.rs:16-31
TokenNew(store, initial_supply) ==
    [token |-> [total_supply |-> initial_supply],
     balances |-> MapSet(store, Creator, initial_supply)]

\* Token::balance_of, simple_token.rs:48-50
balance_of(store, address) == unwrap_or_0(MapGet(store, address))

\* transfer without the credit of simple_token.rs:42-43
transfer_nocredit(store, from, to, amount) ==
    LET from_balance == unwrap_or_0(MapGet(store, from))
    IN  IF from_balance < amount
        THEN { [err |-> "InsufficientBalance", balances |-> store] }
        ELSE { [err |-> None, balances |-> MapSet(store, from, from_balance - amount)] }

\* transfer that writes the sender's balance before the test of
\* simple_token.rs:36
transfer_debit_first(store, from, to, amount) ==
    LET from_balance == unwrap_or_0(MapGet(store, from))
        debited == MapSet(store, from, saturating_sub(from_balance, amount))
    IN  IF from_balance < amount
        THEN { [err |-> "InsufficientBalance", balances |-> debited] }
        ELSE LET to_balance == unwrap_or_0(MapGet(debited, to))
             IN  { IF s.panic
                   THEN [err |-> "panic", balances |-> debited]
                   ELSE [err |-> None, balances |-> MapSet(debited, to, s.v)]
                   : s \in u64_add(to_balance, amount) }

\* Token::transfer, simple_token.rs:33-46: the outcomes a build can produce
transfer(store, from, to, amount) ==
    LET from_balance == unwrap_or_0(MapGet(store, from))
    IN  IF from_balance < amount
        THEN { [err |-> "InsufficientBalance", balances |-> store] }
        ELSE LET debited == MapSet(store, from, from_balance - amount)
                 to_balance == unwrap_or_0(MapGet(debited, to))
             IN  { IF s.panic
                   THEN [err |-> "panic", balances |-> debited]
                   ELSE [err |-> None, balances |-> MapSet(debited, to, s.v)]
                   : s \in u64_add(to_balance, amount) }

\* Token::transfer called by a caller that holds a GasMeter and an EventLog
Transfer(from, to, amount) ==
    /\ token # <<>>
    /\ \E r \in transfer(balances, from, to, amount) :
          /\ balances' = r.balances
          /\ lastTransfer' = << [from |-> from, to |-> to, amount |-> amount,
                                 err |-> r.err, before |-> balances,
                                 meter |-> meter, log |-> eventLog] >>
    /\ UNCHANGED token
    /\ vmIdle
    /\ UNCHANGED <<gasVars, memVars, regVars, evVars, ldVars>>

\* the caller charges its meter for the work it does between two transfers
ChargeCaller(amount) ==
    /\ token # <<>>
    /\ meter' = consume(meter, amount).meter
    /\ meter' # meter
    /\ lastTransfer' = <<>>
    /\ UNCHANGED <<token, balances, lastConsume>>
    /\ vmIdle
    /\ UNCHANGED <<memVars, regVars, evVars, ldVars>>

InitToken ==
    /\ \E initial_supply \in U64 :
          LET t == TokenNew(<<>>, initial_supply)
          IN  token = t.token /\ balances = t.balances
    /\ lastTransfer = <<>>
    /\ meter = GasMeterNew(CallerGas)
    /\ lastConsume = <<>>
    /\ memInit /\ regInit /\ evInit /\ ldInit
    /\ vmInit

\* the amounts asked for: every amount up to one more than was ever minted
TransferAmounts == { amount \in U64 : amount <= token.total_supply + 1 }

NextToken ==
    \/ \E from \in TokenAddrs, to \in TokenAddrs, amount \in TransferAmounts :
          Transfer(from, to, amount)
    \/ ChargeCaller(1)

SpecToken == InitToken /\ [][NextToken]_vars

RECURSIVE SumOver(_, _)
SumOver(store, keys) ==
    IF keys = {} THEN 0
    ELSE LET k == CHOOSE x \in keys : TRUE
         IN  store[k] + SumOver(store, keys \ {k})
\* the sum of all account balances
BalanceSum == SumOver(balances, DOMAIN balances)

C29_SupplyIsBalanceSum ==
    /\ [](token.total_supply = BalanceSum)
    /\ [][token'.total_supply = token.total_supply]_vars

\* the supply is spread over three accounts after a transfer has failed
C29_Witness ==
    /\ lastTransfer # <<>>
    /\ lastTransfer[1].err = "InsufficientBalance"
    /\ \A a \in TokenAddrs : balance_of(balances, a) > 0
    /\ token.total_supply = MaxU64

\* C30: Token::transfer of an amount greater than the sender's balance fails,
\* leaves every balance as it was before the call and records no event, and
\* the gas the caller has been charged before the call stays charged.
C30_FailedTransferLeavesBalances ==
    (lastTransfer # <<>> /\ lastTransfer[1].amount >
                               balance_of(lastTransfer[1].before, lastTransfer[1].from)) =>
        LET c == lastTransfer[1]
        IN  /\ c.err = "InsufficientBalance"
            /\ balances = c.before
            /\ \A a \in TokenAddrs : balance_of(balances, a) = balance_of(c.before, a)
            /\ eventLog = c.log
            /\ meter = c.meter

\* a transfer of more than the sender holds has failed, after the sender
\* received its balance in an earlier transfer and the caller was charged gas
C30_Witness ==
    /\ lastTransfer # <<>>
    /\ lastTransfer[1].err = "InsufficientBalance"
    /\ lastTransfer[1].from = 1
    /\ balance_of(balances, 1) > 0
    /\ lastTransfer[1].amount = balance_of(balances, 1) + 1
    /\ meter.used > 0

(***************************************************************************)
(* ConcurrentModuleLoader, src/src/core/module/concurrent.rs: load_module  *)
(* futures that interleave at their await points, unload_module, and the   *)
(* embedder's Module::add_dependency on a module it holds.                 *)
(***************************************************************************)
\* the module ids that have a file on the search path, the load_module
\* futures in flight at once and the Module values ever allocated
MaxModule == 2
MaxTasks == 2
MaxInstances == 3

\* concurrent.rs:31
MAX_CONCURRENT_LOADS == 32

ModuleIds == 1..MaxModule
\* an id for which find_module finds no file (concurrent.rs:136)
MissingModule == MaxModule + 1
LoadIds == ModuleIds \cup {MissingModule}
Tasks == 1..MaxTasks

\* Module::with_source, mod.rs:30-47: a module without dependencies; the
\* dependencies Vec holds no id twice (mod.rs:70-74) and is kept as a set
ModuleWithSource(id) == [id |-> id, dependencies |-> {}]

\* Module::add_dependency, mod.rs:70-74
add_dependency(module, dep_id) ==
    [module EXCEPT !.dependencies = @ \cup {dep_id}]

\* the Arc an Option holds
Unwrap(opt) == CHOOSE x \in opt : TRUE

IdleTask == [pc |-> "idle", id |-> MissingModule, err |-> None, module |-> {}]
Returned(id, err, module) == [pc |-> "done", id |-> id, err |-> err, module |-> module]
At(t, point, id) == [tasks EXCEPT ![t] = [pc |-> point, id |-> id, err |-> None, module |-> {}]]

\* the permits of max_concurrent_loads that are out (concurrent.rs:46: the
\* permit lives until load_module returns)
PermitsHeld == Cardinality({ t \in Tasks : tasks[t].pc \in {"check", "read"} })
InFlight == Cardinality({ t \in Tasks : tasks[t].pc \in {"acquire", "check", "read"} })

\* concurrent.rs:41-43: a call of load_module(id), up to the first await
LoadModuleStart(t, id) ==
    /\ tasks # <<>>
    /\ tasks[t].pc \in {"idle", "done"}
    /\ modules[id] # {} \/ Len(instances) + InFlight < MaxInstances
    /\ tasks' = IF modules[id] # {}
                THEN [tasks EXCEPT ![t] = Returned(id, None, modules[id])]
                ELSE At(t, "acquire", id)
    /\ tasks' # tasks
    /\ lastUnload' = <<>>
    /\ UNCHANGED <<modules, instances>>
    /\ vmIdle
    /\ UNCHANGED <<gasVars, memVars, regVars, evVars, tokVars>>

\* concurrent.rs:46: the semaphore hands out a permit
LoadModuleAcquire(t) ==
    /\ tasks # <<>>
    /\ tasks[t].pc = "acquire"
    /\ PermitsHeld < MAX_CONCURRENT_LOADS
    /\ tasks' = At(t, "check", tasks[t].id)
    /\ lastUnload' = <<>>
    /\ UNCHANGED <<modules, instances>>
    /\ vmIdle
    /\ UNCHANGED <<gasVars, memVars, regVars, evVars, tokVars>>

\* concurrent.rs:49-55: the second look at the table, find_module, and the
\* start of the read of the file, the next await
LoadModuleCheck(t) ==
    /\ tasks # <<>>
    /\ tasks[t].pc = "check"
    /\ LET id == tasks[t].id
       IN  tasks' = IF modules[id] # {}
                    THEN [tasks EXCEPT ![t] = Returned(id, None, modules[id])]
                    ELSE IF id \notin ModuleIds
                    THEN [tasks EXCEPT ![t] = Returned(id, "NotFound", {})]
                    ELSE At(t, "read", id)
    /\ lastUnload' = <<>>
    /\ UNCHANGED <<modules, instances>>
    /\ vmIdle
    /\ UNCHANGED <<gasVars, memVars, regVars, evVars, tokVars>>

\* concurrent.rs:55-83: the file has been read. The module just built has no
\* dependency, export, import or version, so the validator accepts it
\* (validation.rs:162-187) and join_all has nothing to wait for; the module is
\* put in an Arc of its own, inserted under id and returned.
LoadModuleFinish(t) ==
    /\ tasks # <<>>
    /\ tasks[t].pc = "read"
    /\ LET id == tasks[t].id
           arc == Len(instances) + 1
       IN  /\ instances' = Append(instances, ModuleWithSource(id))
           /\ modules' = [modules EXCEPT ![id] = Some(arc)]
           /\ tasks' = [tasks EXCEPT ![t] = Returned(id, None, Some(arc))]
    /\ lastUnload' = <<>>
    /\ vmIdle
    /\ UNCHANGED <<gasVars, memVars, regVars, evVars, tokVars>>

\* module.write().add_dependency(dep_id) by a holder of the Arc (mod.rs:70-74)
ModuleAddDependency(arc, dep_id) ==
    /\ arc \in DOMAIN instances
    /\ dep_id \notin instances[arc].dependencies
    /\ instances' = [instances EXCEPT ![arc] = add_dependency(@, dep_id)]
    /\ lastUnload' = <<>>
    /\ UNCHANGED <<modules, tasks>>
    /\ vmIdle
    /\ UNCHANGED <<gasVars, memVars, regVars, evVars, tokVars>>

\* ConcurrentModuleLoader::unload_module, concurrent.rs:86-101, under the write
\* lock of the table from its first line to its return
unload_module(mods, insts, id) ==
    IF mods[id] = {}
    THEN [err |-> None, modules |-> mods]
    ELSE LET removed == [mods EXCEPT ![id] = {}]
             dependents == { o \in DOMAIN removed :
                               /\ removed[o] # {}
                               /\ id \in insts[Unwrap(removed[o])].dependencies }
         IN  IF dependents # {}
             THEN [err |-> "ValidationError", modules |-> removed]
             ELSE [err |-> None, modules |-> removed]

UnloadModule(id) ==
    /\ tasks # <<>>
    /\ LET r == unload_module(modules, instances, id)
       IN  /\ modules' = r.modules
           /\ lastUnload' = << [id |-> id, before |-> modules, err |-> r.err] >>
    /\ UNCHANGED <<instances, tasks>>
    /\ vmIdle
    /\ UNCHANGED <<gasVars, memVars, regVars, evVars, tokVars>>

\* ConcurrentModuleLoader::with_validator, concurrent.rs:25-33
InitLoader ==
    /\ modules = [id \in LoadIds |-> {}]
    /\ instances = <<>>
    /\ tasks = [t \in Tasks |-> IdleTask]
    /\ lastUnload = <<>>
    /\ gasInit /\ memInit /\ regInit /\ evInit /\ tokInit
    /\ vmInit

NextLoader ==
    \/ \E t \in Tasks, id \in LoadIds : LoadModuleStart(t, id)
    \/ \E t \in Tasks : LoadModuleAcquire(t)
    \/ \E t \in Tasks : LoadModuleCheck(t)
    \/ \E t \in Tasks : LoadModuleFinish(t)
    \/ \E arc \in 1..MaxInstances, dep_id \in ModuleIds : ModuleAddDependency(arc, dep_id)
    \/ \E id \in LoadIds : UnloadModule(id)

SpecLoader == InitLoader /\ [][NextLoader]_vars

\* C38: load_module calls that run concurrently for one ModuleId load the
\* module at most once and all return the instance stored in the loader's
\* table: a call that returns Ok returns the Arc the table holds under the id,
\* and no call replaces an Arc the table already holds.
C38_LoadedOnce ==
    [][ \A t \in Tasks :
          (tasks'[t] # tasks[t] /\ tasks'[t].pc = "done" /\ tasks'[t].err = None) =>
              LET id == tasks'[t].id
              IN  /\ modules'[id] = tasks'[t].module
                  /\ modules[id] # {} => modules'[id] = modules[id]
      ]_vars

\* C39: an unload_module(id) that fails because a loaded module still depends
\* on id leaves the module table as it was: id is still loaded.
C39_FailedUnloadKeepsModule ==
    (lastUnload # <<>> /\ lastUnload[1].err # None) =>
        /\ modules = lastUnload[1].before
        /\ modules[lastUnload[1].id] # {}

====
